---------------------------- MODULE Spec2Model ----------------------------
(***************************************************************************)
(* LatexRenderer: the text-to-segments parser parseContent of App.tsx and  *)
(* the pre-validator validateLatex of LatexRenderer.tsx.                   *)
(*                                                                         *)
(* A string is a sequence of one-character strings.  Offsets are the       *)
(* 0-based offsets of JavaScript: the character at offset i of s is        *)
(* s[i + 1].  parseContent is modelled statement by statement: one action  *)
(* per iteration of each of its loops, with the two regular expressions'   *)
(* lastIndex kept as state.  validateLatex is modelled check by check, its *)
(* two versions side by side on the same expression.                       *)
(* The LatexRenderer component is modelled memo by memo, up to the element *)
(* it returns and its effect, and ContentRenderer child by child.          *)
(***************************************************************************)
EXTENDS Integers, Sequences, FiniteSets, TLC

\* parseContent
VARIABLES content, pc, displayLastIndex, inlineLastIndex, allMatches,
          parts, currentIndex, forEachIndex

\* validateLatex
VARIABLES latex, vpc, commandLastIndex, returned

\* the results that the callers of the two functions have seen so far
VARIABLES parsed, validated

\* the LatexRenderer component
VARIABLES props, platformOS, version, cpc, cleanLatex, validationError,
          element, onErrorCalls

\* ContentRenderer
VARIABLES children, mapIndex

\* NativeLatexView: its fields, the visibility of its two child views, the
\* text of its error view and the callbacks posted to its handler
VARIABLES latexString, fontSize, textColor, hasError, isAttached,
          pendingLatex, scrollViewVisibility, errorViewVisibility,
          errorViewText, posted

\* what has happened to the NativeLatexView: the last call and its kind,
\* the argument of the last setLatex and whether the view was attached
\* then, whether the last call invoked MTMathView.setLatex, whether
\* renderLatex has been called, whether an exception has left the view
VARIABLES lastCall, lastSet, lastSetAttached, engineInvoked,
          renderLatexCalled, escaped

\* the LaTeXView component: its props, the native module, its three states,
\* the effect still to be flushed, the native calls in flight
VARIABLES viewProps, moduleAvailable, isViewMounted, imageUri, error, loading,
          nativeCalls, inFlight, generation, onErrorMessages, outcome

parseVars == <<content, pc, displayLastIndex, inlineLastIndex, allMatches,
               parts, currentIndex, forEachIndex>>

validateVars == <<latex, vpc, commandLastIndex, returned>>

callsVars == <<parsed, validated>>

componentVars == <<props, platformOS, version, cpc, cleanLatex,
                   validationError, element, onErrorCalls>>

rendererVars == <<children, mapIndex>>

nativeVars == <<latexString, fontSize, textColor, hasError, isAttached,
                pendingLatex, scrollViewVisibility, errorViewVisibility,
                errorViewText, posted, lastCall, lastSet, lastSetAttached,
                engineInvoked, renderLatexCalled, escaped>>

laTeXViewVars == <<viewProps, moduleAvailable, isViewMounted, imageUri, error,
                   loading, nativeCalls, inFlight, generation,
                   onErrorMessages, outcome>>

\* the state of the two views
viewsVars == <<nativeVars, laTeXViewVars>>

\* the state that parseContent does not touch
notParseVars == <<validateVars, callsVars, componentVars, rendererVars, viewsVars>>

\* the state that validateLatex does not touch
notValidateVars == <<parseVars, callsVars, componentVars, rendererVars, viewsVars>>

vars == <<parseVars, validateVars, callsVars, componentVars, rendererVars,
          viewsVars>>

---------------------------------------------------------------------------
(* Bounds of the model *)

\* every string over Alphabet of at most MaxLen characters is an input
MaxLen == 6

\* the pieces (prefix, body, suffix, X, Y, Z) of the delimited inputs have
\* at most MaxPiece characters
MaxPiece == 1

Alphabet == {"$", "a", "1", ".", " "}

PieceAlphabet == Alphabet \ {"$"}

---------------------------------------------------------------------------
(* Strings *)

Strings(A, n) == UNION {[1..m -> A] : m \in 0..n}

Min(S) == CHOOSE x \in S : \A y \in S : x <= y

\* String.prototype.substring(a, b), for 0 <= a <= b <= length
Substring(s, a, b) == SubSeq(s, a + 1, b)

CharAt(s, i) == s[i + 1]

IsWhitespace(c) == c \in {" ", "\n", "\t"}

IsDigit(c) == c \in {"0", "1", "2", "3", "4", "5", "6", "7", "8", "9"}

RECURSIVE TrimStart(_)
TrimStart(s) ==
  IF s # <<>> /\ IsWhitespace(Head(s)) THEN TrimStart(Tail(s)) ELSE s

RECURSIVE TrimEnd(_)
TrimEnd(s) ==
  IF s # <<>> /\ IsWhitespace(s[Len(s)])
    THEN TrimEnd(SubSeq(s, 1, Len(s) - 1))
    ELSE s

\* String.prototype.trim()
Trim(s) == TrimEnd(TrimStart(s))

\* /^\d+$/.test(s)
AllDigits(s) == s # <<>> /\ \A i \in 1..Len(s) : IsDigit(s[i])

\* a currency test that forgets the decimal part
CurrencyTestNoDecimals(s) == AllDigits(s)

\* /^\d+(\.\d+)?$/.test(s)
CurrencyTest(s) ==
  \/ AllDigits(s)
  \/ \E d \in 1..Len(s) :
       /\ s[d] = "."
       /\ AllDigits(SubSeq(s, 1, d - 1))
       /\ AllDigits(SubSeq(s, d + 1, Len(s)))

---------------------------------------------------------------------------
(* The two regular expressions.  A match is [index, m0, m1]: match.index,  *)
(* match[0] and match[1]; Null stands for the null that exec returns.      *)

Null == [index |-> -1, m0 |-> <<>>, m1 |-> <<>>]

\* "$$" at offset i
DoubleDollarAt(s, i) ==
  i >= 0 /\ i + 1 < Len(s) /\ CharAt(s, i) = "$" /\ CharAt(s, i + 1) = "$"

\* the offsets at which /\$\$([\s\S]*?)\$\$/ matches, at or after from
DisplayStarts(s, from) ==
  {i \in from..(Len(s) - 1) :
     DoubleDollarAt(s, i) /\ \E j \in (i + 2)..(Len(s) - 1) : DoubleDollarAt(s, j)}

\* displayRegex.exec(s) with displayRegex.lastIndex = from: the leftmost
\* match, its lazy group ending at the first closing "$$"
DisplayExec(s, from) ==
  IF DisplayStarts(s, from) = {} THEN Null
  ELSE LET i == Min(DisplayStarts(s, from))
           j == Min({j \in (i + 2)..(Len(s) - 1) : DoubleDollarAt(s, j)})
       IN  [index |-> i, m0 |-> Substring(s, i, j + 2), m1 |-> Substring(s, i + 2, j)]

\* offset j closes an inline span opened at offset i: "$", then one or more
\* characters other than "$", then "$" at j
InlineCloses(s, i, j) ==
  /\ j >= i + 2 /\ j < Len(s)
  /\ CharAt(s, j) = "$"
  /\ \A k \in (i + 1)..(j - 1) : CharAt(s, k) # "$"

\* the offsets at which /\$([^\$]+?)\$/ matches, at or after from
InlineStarts(s, from) ==
  {i \in from..(Len(s) - 1) :
     CharAt(s, i) = "$" /\ \E j \in (i + 2)..(Len(s) - 1) : InlineCloses(s, i, j)}

\* inlineRegex.exec(s) with inlineRegex.lastIndex = from
InlineExec(s, from) ==
  IF InlineStarts(s, from) = {} THEN Null
  ELSE LET i == Min(InlineStarts(s, from))
           j == Min({j \in (i + 2)..(Len(s) - 1) : InlineCloses(s, i, j)})
       IN  [index |-> i, m0 |-> Substring(s, i, j + 1), m1 |-> Substring(s, i + 1, j)]

---------------------------------------------------------------------------
(* parseContent *)

\* a MathMatch whose content is not trimmed
MathMatchUntrimmed(match, display) ==
  [start |-> match.index, end |-> match.index + Len(match.m0),
   content |-> match.m1, display |-> display]

\* a MathMatch pushed for a match of either regular expression
MathMatch(match, display) ==
  [start |-> match.index, end |-> match.index + Len(match.m0),
   content |-> Trim(match.m1), display |-> display]

\* a nesting test that is never true
insideDisplayNever(matches, match) == FALSE

\* a nesting test that misses the second "$" of the opening delimiter
insideDisplayOffByOne(matches, match) ==
  \E n \in 1..Len(matches) :
    match.index > matches[n].start + 1 /\ match.index < matches[n].end

\* allMatches.some(dm => match.index > dm.start && match.index < dm.end)
insideDisplay(matches, match) ==
  \E n \in 1..Len(matches) :
    match.index > matches[n].start /\ match.index < matches[n].end

\* Array.prototype.sort((a, b) => a.start - b.start): a stable insertion
RECURSIVE SortByStart(_)
Insert(m, sorted) ==
  LET before == {n \in 1..Len(sorted) : sorted[n].start <= m.start}
      at == IF before = {} THEN 0 ELSE CHOOSE n \in before : \A o \in before : o <= n
  IN  SubSeq(sorted, 1, at) \o <<m>> \o SubSeq(sorted, at + 1, Len(sorted))
SortByStart(ms) ==
  IF ms = <<>> THEN <<>>
  ELSE Insert(ms[Len(ms)], SortByStart(SubSeq(ms, 1, Len(ms) - 1)))

TextPart(s) == [type |-> "text", content |-> s]

LatexPart(m) == [type |-> "latex", content |-> m.content, display |-> m.display]

---------------------------------------------------------------------------
(* Inputs *)

Dollar == <<"$">>

TestCase13 ==
  <<"T", "h", "e", " ", "t", "o", "t", "a", "l", " ", "c", "o", "s", "t",
    " ", "i", "s", " ", "$", "5", "0", "0", " ", "a", "n", "d", " ", "t",
    "h", "e", " ", "d", "i", "s", "c", "o", "u", "n", "t", " ", "i", "s",
    " ", "$", "5", "0", ".">>

TestCase14 ==
  <<"H", "e", " ", "e", "a", "r", "n", "e", "d", " ", "$", "1", "0", "0",
    "0", " ", "i", "n", " ", "h", "i", "s", " ", "f", "i", "r", "s", "t",
    " ", "j", "o", "b", ".">>

\* $$a $b$ c$$
NestedExample == <<"$", "$", "a", " ", "$", "b", "$", " ", "c", "$", "$">>

\* $a$b$c$
PairingExample == <<"$", "a", "$", "b", "$", "c", "$">>

Examples == {TestCase13, TestCase14, NestedExample, PairingExample}

Pieces == Strings(PieceAlphabet, MaxPiece)

\* prefix D body D suffix, D one of $ and $$
OneSpanInputs ==
  {p \o d \o b \o d \o q :
     p \in Pieces, b \in Pieces, q \in Pieces, d \in {Dollar, Dollar \o Dollar}}

\* $X$Y$Z$
ThreeSpanInputs ==
  {Dollar \o x \o Dollar \o y \o Dollar \o z \o Dollar :
     x \in Pieces \ {<<>>}, y \in Pieces \ {<<>>}, z \in Pieces \ {<<>>}}

Inputs == Strings(Alphabet, MaxLen) \cup Examples \cup OneSpanInputs \cup ThreeSpanInputs

---------------------------------------------------------------------------
(* The two versions of validateLatex: 1 checks the commands against the    *)
(* allow-list knownCommands, 2 does not.                                   *)

Variants == {1, 2}

\* what validateLatex returns: null, or one diagnostic; an unsupported
\* command is named in command
Diagnostic(msg) == [msg |-> msg, command |-> <<>>]

Valid == Diagnostic("null")

NotReturned == Diagnostic("(no return yet)")

\* validateLatex is not called
ValidateIdle ==
  /\ latex = <<>>
  /\ vpc = [v \in Variants |-> "idle"]
  /\ commandLastIndex = 0
  /\ returned = [v \in Variants |-> NotReturned]

\* no call has returned yet
NoCalls ==
  /\ parsed = {}
  /\ validated = {}

\* the null of Java and of JavaScript, where a string is expected
NullString == <<"null">>

\* a NativeLatexView as its constructor leaves it, with no call made
NativeNew ==
  /\ latexString = <<>>
  /\ fontSize = 20
  /\ textColor = "BLACK"
  /\ hasError = FALSE
  /\ isAttached = FALSE
  /\ pendingLatex = NullString
  /\ scrollViewVisibility = "VISIBLE"
  /\ errorViewVisibility = "GONE"
  /\ errorViewText = ""
  /\ posted = <<>>
  /\ lastCall = "init"
  /\ lastSet = NullString
  /\ lastSetAttached = FALSE
  /\ engineInvoked = FALSE
  /\ renderLatexCalled = FALSE
  /\ escaped = FALSE

NoViewProps ==
  [latex |-> <<>>, fontSize |-> 20, textColor |-> "#000000", maxWidth |-> 800,
   onError |-> FALSE]

NoOutcome == [kind |-> "none", generation |-> 0, message |-> NullString]

\* no LaTeXView is mounted
LaTeXViewIdle ==
  /\ viewProps = NoViewProps
  /\ moduleAvailable = TRUE
  /\ isViewMounted = FALSE
  /\ imageUri = NullString
  /\ error = NullString
  /\ loading = TRUE
  /\ nativeCalls = {}
  /\ inFlight = {}
  /\ generation = 0
  /\ onErrorMessages = <<>>
  /\ outcome = NoOutcome

\* neither view is in use
NoViews ==
  /\ NativeNew
  /\ LaTeXViewIdle

NoProps == [latex |-> <<>>, showErrorInline |-> FALSE, onError |-> FALSE]

NoElement == [type |-> "none", content |-> <<>>, error |-> Valid]

\* no LatexRenderer is being rendered
ComponentIdle ==
  /\ props = NoProps
  /\ cpc = "idle"
  /\ cleanLatex = <<>>
  /\ validationError = Valid
  /\ element = NoElement
  /\ onErrorCalls = <<>>

\* no ContentRenderer is being rendered
RendererIdle ==
  /\ children = <<>>
  /\ mapIndex = 1

\* no component is rendered at all
NoComponents ==
  /\ ComponentIdle
  /\ RendererIdle
  /\ platformOS = "android"
  /\ version = 1

---------------------------------------------------------------------------
(* The state machine *)

Init ==
  /\ content \in Inputs
  /\ pc = "display"
  /\ displayLastIndex = 0
  /\ inlineLastIndex = 0
  /\ allMatches = <<>>
  /\ parts = <<>>
  /\ currentIndex = 0
  /\ forEachIndex = 1
  /\ ValidateIdle
  /\ NoCalls
  /\ NoComponents
  /\ NoViews

\* one iteration of the display loop: a match is pushed
DisplayPush ==
  /\ pc = "display"
  /\ \E match \in {DisplayExec(content, displayLastIndex)} :
       /\ match # Null
       /\ allMatches' = Append(allMatches, MathMatch(match, TRUE))
       /\ displayLastIndex' = match.index + Len(match.m0)
  /\ UNCHANGED <<content, pc, inlineLastIndex, parts, currentIndex, forEachIndex>>
  /\ UNCHANGED notParseVars

\* displayRegex.exec returns null: lastIndex is reset, the loop ends
DisplayEnd ==
  /\ pc = "display"
  /\ DisplayExec(content, displayLastIndex) = Null
  /\ displayLastIndex' = 0
  /\ pc' = "inline"
  /\ UNCHANGED <<content, inlineLastIndex, allMatches, parts, currentIndex, forEachIndex>>
  /\ UNCHANGED notParseVars

\* an inline match that starts inside a display match is dropped
InlineInsideDisplay ==
  /\ pc = "inline"
  /\ \E match \in {InlineExec(content, inlineLastIndex)} :
       /\ match # Null
       /\ insideDisplay(allMatches, match)
       /\ inlineLastIndex' = match.index + Len(match.m0)
  /\ UNCHANGED <<content, pc, displayLastIndex, allMatches, parts, currentIndex,
                 forEachIndex>>
  /\ UNCHANGED notParseVars

\* a currency value is skipped and the scan resumes inside it
InlineCurrencyRescans ==
  /\ pc = "inline"
  /\ \E match \in {InlineExec(content, inlineLastIndex)} :
       /\ match # Null
       /\ ~insideDisplay(allMatches, match)
       /\ CurrencyTest(Trim(match.m1))
       /\ inlineLastIndex' = match.index + 1
  /\ UNCHANGED <<content, pc, displayLastIndex, allMatches, parts, currentIndex,
                 forEachIndex>>
  /\ UNCHANGED notParseVars

\* an inline match that looks like a currency value is skipped (continue)
InlineCurrency ==
  /\ pc = "inline"
  /\ \E match \in {InlineExec(content, inlineLastIndex)} :
       /\ match # Null
       /\ ~insideDisplay(allMatches, match)
       /\ CurrencyTest(Trim(match.m1))
       /\ inlineLastIndex' = match.index + Len(match.m0)
  /\ UNCHANGED <<content, pc, displayLastIndex, allMatches, parts, currentIndex,
                 forEachIndex>>
  /\ UNCHANGED notParseVars

\* an inline match is pushed, and its closing "$" is scanned again
InlinePushReusesClosing ==
  /\ pc = "inline"
  /\ \E match \in {InlineExec(content, inlineLastIndex)} :
       /\ match # Null
       /\ ~insideDisplay(allMatches, match)
       /\ ~CurrencyTest(Trim(match.m1))
       /\ allMatches' = Append(allMatches, MathMatch(match, FALSE))
       /\ inlineLastIndex' = match.index + Len(match.m0) - 1
  /\ UNCHANGED <<content, pc, displayLastIndex, parts, currentIndex, forEachIndex>>
  /\ UNCHANGED notParseVars

\* an inline match is pushed
InlinePush ==
  /\ pc = "inline"
  /\ \E match \in {InlineExec(content, inlineLastIndex)} :
       /\ match # Null
       /\ ~insideDisplay(allMatches, match)
       /\ ~CurrencyTest(Trim(match.m1))
       /\ allMatches' = Append(allMatches, MathMatch(match, FALSE))
       /\ inlineLastIndex' = match.index + Len(match.m0)
  /\ UNCHANGED <<content, pc, displayLastIndex, parts, currentIndex, forEachIndex>>
  /\ UNCHANGED notParseVars

\* inlineRegex.exec returns null: the loop ends
InlineEnd ==
  /\ pc = "inline"
  /\ InlineExec(content, inlineLastIndex) = Null
  /\ inlineLastIndex' = 0
  /\ pc' = "sort"
  /\ UNCHANGED <<content, displayLastIndex, allMatches, parts, currentIndex,
                 forEachIndex>>
  /\ UNCHANGED notParseVars

\* allMatches.sort(...)
SortMatches ==
  /\ pc = "sort"
  /\ allMatches' = SortByStart(allMatches)
  /\ pc' = "forEach"
  /\ UNCHANGED <<content, displayLastIndex, inlineLastIndex, parts, currentIndex,
                 forEachIndex>>
  /\ UNCHANGED notParseVars

\* a forEach callback that leaves the cursor on the closing delimiter
ForEachMatchCursorShort ==
  /\ pc = "forEach"
  /\ forEachIndex <= Len(allMatches)
  /\ LET m == allMatches[forEachIndex]
         gap == IF m.start > currentIndex
                  THEN <<TextPart(Substring(content, currentIndex, m.start))>>
                  ELSE <<>>
     IN  /\ parts' = parts \o gap \o <<LatexPart(m)>>
         /\ currentIndex' = m.end - 1
  /\ forEachIndex' = forEachIndex + 1
  /\ UNCHANGED <<content, pc, displayLastIndex, inlineLastIndex, allMatches>>
  /\ UNCHANGED notParseVars

\* a forEach callback that pushes the text before a match even when empty
ForEachMatchEmptyGap ==
  /\ pc = "forEach"
  /\ forEachIndex <= Len(allMatches)
  /\ LET m == allMatches[forEachIndex]
         gap == IF m.start >= currentIndex
                  THEN <<TextPart(Substring(content, currentIndex, m.start))>>
                  ELSE <<>>
     IN  /\ parts' = parts \o gap \o <<LatexPart(m)>>
         /\ currentIndex' = m.end
  /\ forEachIndex' = forEachIndex + 1
  /\ UNCHANGED <<content, pc, displayLastIndex, inlineLastIndex, allMatches>>
  /\ UNCHANGED notParseVars

\* one call of the forEach callback
ForEachMatch ==
  /\ pc = "forEach"
  /\ forEachIndex <= Len(allMatches)
  /\ LET m == allMatches[forEachIndex]
         gap == IF m.start > currentIndex
                  THEN <<TextPart(Substring(content, currentIndex, m.start))>>
                  ELSE <<>>
     IN  /\ parts' = parts \o gap \o <<LatexPart(m)>>
         /\ currentIndex' = m.end
  /\ forEachIndex' = forEachIndex + 1
  /\ UNCHANGED <<content, pc, displayLastIndex, inlineLastIndex, allMatches>>
  /\ UNCHANGED notParseVars

\* the text after the last match is forgotten
TrailingTextDropped ==
  /\ pc = "forEach"
  /\ forEachIndex > Len(allMatches)
  /\ parts' = parts
  /\ pc' = "fallback"
  /\ UNCHANGED <<content, displayLastIndex, inlineLastIndex, allMatches, currentIndex,
                 forEachIndex>>
  /\ UNCHANGED notParseVars

\* after the forEach: the text after the last match
TrailingText ==
  /\ pc = "forEach"
  /\ forEachIndex > Len(allMatches)
  /\ parts' = IF currentIndex < Len(content)
                THEN Append(parts, TextPart(Substring(content, currentIndex, Len(content))))
                ELSE parts
  /\ pc' = "fallback"
  /\ UNCHANGED <<content, displayLastIndex, inlineLastIndex, allMatches, currentIndex,
                 forEachIndex>>
  /\ UNCHANGED notParseVars

\* a return without the fallback for an empty result
ReturnPartsNoFallback ==
  /\ pc = "fallback"
  /\ parts' = parts
  /\ pc' = "done"
  /\ UNCHANGED <<content, displayLastIndex, inlineLastIndex, allMatches, currentIndex,
                 forEachIndex>>
  /\ UNCHANGED notParseVars

\* if (parts.length === 0) parts.push({type: 'text', content}); return parts
ReturnParts ==
  /\ pc = "fallback"
  /\ parts' = IF Len(parts) = 0 THEN <<TextPart(content)>> ELSE parts
  /\ pc' = "done"
  /\ UNCHANGED <<content, displayLastIndex, inlineLastIndex, allMatches, currentIndex,
                 forEachIndex>>
  /\ UNCHANGED notParseVars

Next ==
  \/ DisplayPush
  \/ DisplayEnd
  \/ InlineInsideDisplay
  \/ InlineCurrency
  \/ InlinePush
  \/ InlineEnd
  \/ SortMatches
  \/ ForEachMatch
  \/ TrailingText
  \/ ReturnParts

Spec == Init /\ [][Next]_vars

---------------------------------------------------------------------------
(* Vocabulary of the properties *)

Done == pc = "done"

\* the offsets of the "$" characters of s, and the n-th of them
DollarOffsets(s) == {i \in 0..(Len(s) - 1) : CharAt(s, i) = "$"}

RECURSIVE NthDollar(_, _)
NthDollar(s, n) ==
  IF n = 1 THEN Min(DollarOffsets(s))
  ELSE Min({i \in DollarOffsets(s) : i > NthDollar(s, n - 1)})

\* a number with an optional decimal part: digits and at most one ".", a
\* digit first and a digit last
NumberShape(s) ==
  /\ s # <<>>
  /\ IsDigit(s[1]) /\ IsDigit(s[Len(s)])
  /\ \A i \in 1..Len(s) : IsDigit(s[i]) \/ s[i] = "."
  /\ Cardinality({i \in 1..Len(s) : s[i] = "."}) <= 1

\* a purely numeric interior: a number once trimmed
PurelyNumeric(s) == NumberShape(Trim(s))

\* the parts of the result that are math, in order
RECURSIVE SelectLatex(_)
SelectLatex(ps) ==
  IF ps = <<>> THEN <<>>
  ELSE IF Head(ps).type = "latex" THEN <<Head(ps)>> \o SelectLatex(Tail(ps))
  ELSE SelectLatex(Tail(ps))

---------------------------------------------------------------------------
(* C1: segmenting "The total cost is $500 and the discount is $50." gives  *)
(* exactly one Text segment, equal to the whole input, and no Math         *)
(* segment.                                                                *)
C1_TestCase13SingleText ==
  (Done /\ content = TestCase13) => parts = <<TextPart(TestCase13)>>

(* C2: the source spans of the Math segments are in strictly increasing    *)
(* start order and pairwise disjoint: each span starts at or after the end *)
(* of the previous one.                                                    *)
C2_SpansIncreasingDisjoint ==
  Done =>
    \A n \in 1..Len(allMatches), o \in 1..Len(allMatches) :
      n < o =>
        /\ allMatches[n].start < allMatches[o].start
        /\ allMatches[n].end <= allMatches[o].start

\* the offsets inside the span of a kept match
Covered(i) ==
  \E n \in 1..Len(allMatches) : allMatches[n].start <= i /\ i < allMatches[n].end

\* the offsets of the delimiters of the kept matches
DelimiterOffsets ==
  UNION {IF allMatches[n].display
           THEN {allMatches[n].start, allMatches[n].start + 1,
                 allMatches[n].end - 2, allMatches[n].end - 1}
           ELSE {allMatches[n].start, allMatches[n].end - 1} :
         n \in 1..Len(allMatches)}

\* the span of a match without its delimiters
Interior(m) ==
  LET d == IF m.display THEN 2 ELSE 1
  IN  Substring(content, m.start + d, m.end - d)

\* the number of math parts before the p-th part
LatexBefore(p) == Len(SelectLatex(SubSeq(parts, 1, p - 1)))

\* where the text between two consecutive math parts lies in the source:
\* from the end of the span before it to the start of the span after it
TextLo(p) ==
  LET n == LatexBefore(p)
  IN  IF n = 0 \/ n > Len(allMatches) THEN 0 ELSE allMatches[n].end

TextHi(p) ==
  LET n == LatexBefore(p)
  IN  IF n >= Len(allMatches) THEN Len(content) ELSE allMatches[n + 1].start

TextIndices == {p \in 1..Len(parts) : parts[p].type = "text"}

\* the character at offset i is in a Text part, at its place
InText(i) ==
  \E p \in TextIndices :
    /\ TextLo(p) <= i /\ i < TextHi(p)
    /\ i - TextLo(p) < Len(parts[p].content)
    /\ CharAt(parts[p].content, i - TextLo(p)) = CharAt(content, i)

(* C3: no character is dropped or duplicated: the Text parts are exactly   *)
(* the stretches of the input outside the kept spans, each once, in place  *)
(* and in order, and each Math part is the interior of its span, trimmed.  *)
C3_NothingDroppedOrDuplicated ==
  Done =>
    /\ Len(SelectLatex(parts)) = Len(allMatches)
    /\ \A n \in 1..Len(SelectLatex(parts)) :
         n <= Len(allMatches) =>
           SelectLatex(parts)[n].content = Trim(Interior(allMatches[n]))
    /\ \A p \in TextIndices :
         /\ TextLo(p) <= TextHi(p)
         /\ parts[p].content = Substring(content, TextLo(p), TextHi(p))
         /\ \A i \in TextLo(p)..(TextHi(p) - 1) : ~Covered(i)
    /\ \A p \in TextIndices, q \in TextIndices :
         p # q => LatexBefore(p) # LatexBefore(q)
    /\ \A i \in 0..(Len(content) - 1) : ~Covered(i) => InText(i)

C3_Witness ==
  /\ Done
  /\ Len(parts) >= 3
  /\ TextIndices # {}
  /\ \E n \in 1..Len(allMatches) :
       Interior(allMatches[n]) # allMatches[n].content

(* C4: when no math candidate survives, in particular for a string without *)
(* "$" and for the empty string, the result is one Text part holding the   *)
(* whole input.                                                            *)
C4_NoMathSingleText ==
  (Done /\ (allMatches = <<>> \/ DollarOffsets(content) = {})) =>
    parts = <<TextPart(content)>>

C4_Witness == Done /\ content = <<>> /\ parts = <<TextPart(<<>>)>>

\* p $ N $ q: two "$", a purely numeric N between them
CurrencyForm(s) ==
  /\ Cardinality(DollarOffsets(s)) = 2
  /\ PurelyNumeric(Substring(s, NthDollar(s, 1) + 1, NthDollar(s, 2)))

(* C5: an input p $ N $ q, with p and q free of "$" and N a number with an *)
(* optional decimal part once trimmed, gives no Math part: one Text part   *)
(* holding the whole input.                                                *)
C5_CurrencyExcluded ==
  (Done /\ CurrencyForm(content)) => parts = <<TextPart(content)>>

C5_Witness ==
  /\ Done
  /\ CurrencyForm(content)
  /\ \E i \in NthDollar(content, 1)..NthDollar(content, 2) : CharAt(content, i) = "."
  /\ parts = <<TextPart(content)>>

(* C6: no inline Math part starts strictly inside the span of a display    *)
(* candidate; $$a $b$ c$$ gives one Math part, display, content a $b$ c.   *)
C6_DisplayPrecedence ==
  Done =>
    /\ \A n \in 1..Len(allMatches), o \in 1..Len(allMatches) :
         (allMatches[n].display /\ ~allMatches[o].display) =>
           ~(allMatches[o].start > allMatches[n].start
               /\ allMatches[o].start < allMatches[n].end)
    /\ content = NestedExample =>
         parts = <<[type |-> "latex",
                    content |-> <<"a", " ", "$", "b", "$", " ", "c">>,
                    display |-> TRUE]>>

C6_Witness == Done /\ content = NestedExample /\ Len(parts) = 1

(* C7: the span of a Math part is never contained in the span of another.  *)
C7_NoNestedSpans ==
  Done =>
    \A n \in 1..Len(allMatches), o \in 1..Len(allMatches) :
      n # o =>
        ~(allMatches[n].start <= allMatches[o].start
            /\ allMatches[o].end <= allMatches[n].end)

\* an inline candidate lies inside a kept display span and was not extracted
C7_Witness ==
  /\ Done
  /\ \E n \in 1..Len(allMatches) :
       LET match == InlineExec(content, allMatches[n].start) IN
         /\ allMatches[n].display
         /\ match # Null
         /\ match.index > allMatches[n].start
         /\ match.index + Len(match.m0) <= allMatches[n].end

(* C8, as claimed: an input with a single "$" gives one Text part holding  *)
(* the input, and every "$" that is not a delimiter of a kept candidate is *)
(* inside a Text part.                                                     *)
C8_UnterminatedStaysText ==
  Done =>
    /\ Cardinality(DollarOffsets(content)) = 1 => parts = <<TextPart(content)>>
    /\ \A i \in DollarOffsets(content) \ DelimiterOffsets : InText(i)

(* C8, amended: an input with a single "$" gives one Text part holding the *)
(* input, and every "$" outside the spans of the kept candidates is inside *)
(* a Text part (a "$" strictly inside a kept display span stays in the     *)
(* content of that Math part).                                             *)
C8_UnterminatedOutsideSpansStaysText ==
  Done =>
    /\ Cardinality(DollarOffsets(content)) = 1 => parts = <<TextPart(content)>>
    /\ \A i \in DollarOffsets(content) : ~Covered(i) => InText(i)

C8_Witness ==
  /\ Done
  /\ allMatches # <<>>
  /\ \E i \in DollarOffsets(content) : ~Covered(i) /\ InText(i)

\* $X$Y$Z$ with X, Y, Z not empty and free of "$"
ThreeSpanForm(s) ==
  /\ Cardinality(DollarOffsets(s)) = 4
  /\ NthDollar(s, 1) = 0
  /\ NthDollar(s, 4) = Len(s) - 1
  /\ \A n \in 1..3 : NthDollar(s, n + 1) > NthDollar(s, n) + 1

Between(s, n) == Substring(s, NthDollar(s, n) + 1, NthDollar(s, n + 1))

(* C9: $X$Y$Z$ with X, Y, Z not empty, free of "$", X and Z not purely     *)
(* numeric, gives Math(trim X) inline, Text(Y), Math(trim Z) inline.       *)
C9_PairsLeftToRight ==
  (/\ Done
   /\ ThreeSpanForm(content)
   /\ ~PurelyNumeric(Between(content, 1))
   /\ ~PurelyNumeric(Between(content, 3))) =>
    parts = <<[type |-> "latex", content |-> Trim(Between(content, 1)),
               display |-> FALSE],
              TextPart(Between(content, 2)),
              [type |-> "latex", content |-> Trim(Between(content, 3)),
               display |-> FALSE]>>

C9_Witness ==
  /\ Done
  /\ content = PairingExample
  /\ parts = <<[type |-> "latex", content |-> <<"a">>, display |-> FALSE],
               TextPart(<<"b">>),
               [type |-> "latex", content |-> <<"c">>, display |-> FALSE]>>

\* prefix $ body $ suffix: body not empty and not purely numeric
OneInlineForm(s) ==
  /\ Cardinality(DollarOffsets(s)) = 2
  /\ NthDollar(s, 2) > NthDollar(s, 1) + 1
  /\ ~PurelyNumeric(Between(s, 1))

\* prefix $$ body $$ suffix
OneDisplayForm(s) ==
  /\ Cardinality(DollarOffsets(s)) = 4
  /\ NthDollar(s, 2) = NthDollar(s, 1) + 1
  /\ NthDollar(s, 4) = NthDollar(s, 3) + 1

\* [Text(prefix)], Math(trim body), [Text(suffix)]
OneSpanParts(prefix, body, suffix, display) ==
  (IF prefix # <<>> THEN <<TextPart(prefix)>> ELSE <<>>)
    \o <<[type |-> "latex", content |-> Trim(body), display |-> display]>>
    \o (IF suffix # <<>> THEN <<TextPart(suffix)>> ELSE <<>>)

(* C10: prefix D body D suffix, the three free of "$", with D = $$, or     *)
(* D = $ and body not empty and not purely numeric, gives Text(prefix) if  *)
(* not empty, Math(trim body, display iff D = $$), Text(suffix) if not     *)
(* empty; the text is not trimmed.                                         *)
C10_SingleSpan ==
  Done =>
    /\ OneInlineForm(content) =>
         parts = OneSpanParts(Substring(content, 0, NthDollar(content, 1)),
                              Between(content, 1),
                              Substring(content, NthDollar(content, 2) + 1, Len(content)),
                              FALSE)
    /\ OneDisplayForm(content) =>
         parts = OneSpanParts(Substring(content, 0, NthDollar(content, 1)),
                              Between(content, 2),
                              Substring(content, NthDollar(content, 4) + 1, Len(content)),
                              TRUE)

C10_Witness ==
  /\ Done
  /\ OneDisplayForm(content)
  /\ NthDollar(content, 1) > 0
  /\ NthDollar(content, 4) < Len(content) - 1
  /\ Between(content, 2) # Trim(Between(content, 2))
  /\ Len(parts) = 3

(* C11: parseContent is total and its result well formed: it never stops   *)
(* before it returns, it returns at least one part, a Text part is empty   *)
(* only as the sole part of an empty input, and no two Text parts are      *)
(* adjacent.                                                               *)
C11_TotalAndWellFormed ==
  /\ ~Done => ENABLED Next
  /\ Done =>
       /\ Len(parts) >= 1
       /\ \A p \in TextIndices :
            parts[p].content = <<>> => (Len(parts) = 1 /\ content = <<>>)
       /\ \A p \in TextIndices : (p + 1) \notin TextIndices

\* an input with unbalanced delimiters, segmented into text and math
C11_Witness ==
  /\ Done
  /\ Cardinality(DollarOffsets(content)) = 3
  /\ TextIndices # {}
  /\ Len(parts) >= 2

\* what is left to do: the phases still to run, and within a loop the
\* input (or the matches) not yet consumed
Remaining ==
  CASE pc = "display" -> Len(content) - displayLastIndex
    [] pc = "inline" -> Len(content) - inlineLastIndex
    [] pc = "forEach" -> Len(allMatches) + 1 - forEachIndex
    [] OTHER -> 0

PhasesLeft ==
  CASE pc = "display" -> 5
    [] pc = "inline" -> 4
    [] pc = "sort" -> 3
    [] pc = "forEach" -> 2
    [] pc = "fallback" -> 1
    [] OTHER -> 0

(* C18: parseContent terminates: an iteration of the display loop consumes *)
(* at least 4 characters and one of the inline loop at least 3, also when  *)
(* the candidate is skipped, neither scan passes the end of the input, and *)
(* every step brings the return closer.                                    *)
C18_ScansConsumeInput ==
  /\ [](/\ displayLastIndex <= Len(content)
        /\ inlineLastIndex <= Len(content)
        /\ Remaining >= 0)
  /\ [][/\ (pc = "display" /\ pc' = "display") =>
             displayLastIndex' >= displayLastIndex + 4
        /\ (pc = "inline" /\ pc' = "inline") =>
             inlineLastIndex' >= inlineLastIndex + 3
        /\ \/ PhasesLeft' < PhasesLeft
           \/ PhasesLeft' = PhasesLeft /\ Remaining' < Remaining]_vars

\* the inline loop has run past a candidate it skipped as currency
C18_Witness ==
  /\ pc = "inline"
  /\ inlineLastIndex >= 3
  /\ allMatches = <<>>
  /\ InlineExec(content, 0) # Null
  /\ CurrencyTest(Trim(InlineExec(content, 0).m1))

---------------------------------------------------------------------------
(* validateLatex *)

\* the expressions validated are made of at most MaxTokens tokens
MaxTokens == 3

UpperCase ==
  <<"A", "B", "C", "D", "E", "F", "G", "H", "I", "J", "K", "L", "M",
    "N", "O", "P", "Q", "R", "S", "T", "U", "V", "W", "X", "Y", "Z">>

LowerCase ==
  <<"a", "b", "c", "d", "e", "f", "g", "h", "i", "j", "k", "l", "m",
    "n", "o", "p", "q", "r", "s", "t", "u", "v", "w", "x", "y", "z">>

\* [a-zA-Z]
IsLetter(c) == \E n \in 1..26 : c = UpperCase[n] \/ c = LowerCase[n]

\* the case folding of the i flag
FoldCase(c) ==
  IF \E n \in 1..26 : c = UpperCase[n]
    THEN LowerCase[CHOOSE n \in 1..26 : c = UpperCase[n]]
    ELSE c

\* the for loop over the characters: the final braceCount, or -1 when the
\* loop returns because braceCount fell below 0
\* the brace loop without its early return
RECURSIVE BraceLoopNoEarlyReturn(_, _, _)
BraceLoopNoEarlyReturn(s, i, braceCount) ==
  IF i > Len(s) THEN braceCount
  ELSE BraceLoopNoEarlyReturn(s, i + 1,
         braceCount + (IF s[i] = "{" THEN 1 ELSE 0) - (IF s[i] = "}" THEN 1 ELSE 0))

RECURSIVE BraceLoop(_, _, _)
BraceLoop(s, i, braceCount) ==
  IF i > Len(s) THEN braceCount
  ELSE LET count == braceCount + (IF s[i] = "{" THEN 1 ELSE 0)
                               - (IF s[i] = "}" THEN 1 ELSE 0)
       IN  IF count < 0 THEN -1 ELSE BraceLoop(s, i + 1, count)

\* the patterns without their i flag
WordAtCaseSensitive(s, i, word) ==
  /\ i >= 0 /\ i + Len(word) <= Len(s)
  /\ \A n \in 1..Len(word) : CharAt(s, i + n - 1) = word[n]

\* the word at offset i of s, case ignored
WordAt(s, i, word) ==
  /\ i >= 0 /\ i + Len(word) <= Len(s)
  /\ \A n \in 1..Len(word) : FoldCase(CharAt(s, i + n - 1)) = word[n]

\* \s* from offset a up to offset b
AllWhitespace(s, a, b) == \A k \in a..(b - 1) : IsWhitespace(CharAt(s, k))

FracWord == <<"\\", "f", "r", "a", "c">>

SqrtWord == <<"\\", "s", "q", "r", "t">>

\* /\\frac\s*$/i and /\\sqrt\s*$/i
EndsWithCommand(s, word) ==
  \E i \in 0..(Len(s) - Len(word)) :
    WordAt(s, i, word) /\ AllWhitespace(s, i + Len(word), Len(s))

\* /\\frac\s*\{[^}]*\}\s*$/i
EndsWithFracOneArgument(s) ==
  \E i \in 0..(Len(s) - Len(FracWord)) :
    /\ WordAt(s, i, FracWord)
    /\ \E j \in (i + Len(FracWord))..(Len(s) - 1) :
         /\ CharAt(s, j) = "{"
         /\ AllWhitespace(s, i + Len(FracWord), j)
         /\ \E k \in (j + 1)..(Len(s) - 1) :
              /\ CharAt(s, k) = "}"
              /\ \A m \in (j + 1)..(k - 1) : CharAt(s, m) # "}"
              /\ AllWhitespace(s, k + 1, Len(s))

\* the loop over incompleteCommands: the msg of the first pattern that
\* matches, Valid when none does
FirstIncomplete(s) ==
  IF EndsWithCommand(s, FracWord) THEN Diagnostic("Incomplete \\frac command")
  ELSE IF EndsWithCommand(s, SqrtWord) THEN Diagnostic("Incomplete \\sqrt command")
  ELSE IF EndsWithFracOneArgument(s) THEN Diagnostic("\\frac needs two arguments")
  ELSE Valid

knownCommands ==
  {<<"f", "r", "a", "c">>, <<"s", "q", "r", "t">>, <<"s", "u", "m">>,
   <<"p", "r", "o", "d">>, <<"i", "n", "t">>, <<"o", "i", "n", "t">>,
   <<"i", "i", "n", "t">>, <<"i", "i", "i", "n", "t">>, <<"s", "i", "n">>,
   <<"c", "o", "s">>, <<"t", "a", "n">>, <<"c", "o", "t">>,
   <<"s", "e", "c">>, <<"c", "s", "c">>, <<"a", "r", "c", "s", "i", "n">>,
   <<"a", "r", "c", "c", "o", "s">>, <<"a", "r", "c", "t", "a", "n">>,
   <<"s", "i", "n", "h">>, <<"c", "o", "s", "h">>, <<"t", "a", "n", "h">>,
   <<"c", "o", "t", "h">>, <<"l", "o", "g">>, <<"l", "n">>,
   <<"e", "x", "p">>, <<"l", "i", "m">>, <<"l", "i", "m", "s", "u", "p">>,
   <<"l", "i", "m", "i", "n", "f">>, <<"s", "u", "p">>, <<"i", "n", "f">>,
   <<"m", "i", "n">>, <<"m", "a", "x">>, <<"a", "l", "p", "h", "a">>,
   <<"b", "e", "t", "a">>, <<"g", "a", "m", "m", "a">>,
   <<"d", "e", "l", "t", "a">>, <<"e", "p", "s", "i", "l", "o", "n">>,
   <<"v", "a", "r", "e", "p", "s", "i", "l", "o", "n">>,
   <<"z", "e", "t", "a">>, <<"e", "t", "a">>, <<"t", "h", "e", "t", "a">>,
   <<"v", "a", "r", "t", "h", "e", "t", "a">>, <<"i", "o", "t", "a">>,
   <<"k", "a", "p", "p", "a">>, <<"l", "a", "m", "b", "d", "a">>,
   <<"m", "u">>, <<"n", "u">>, <<"x", "i">>, <<"p", "i">>,
   <<"v", "a", "r", "p", "i">>, <<"r", "h", "o">>,
   <<"v", "a", "r", "r", "h", "o">>, <<"s", "i", "g", "m", "a">>,
   <<"v", "a", "r", "s", "i", "g", "m", "a">>, <<"t", "a", "u">>,
   <<"u", "p", "s", "i", "l", "o", "n">>, <<"p", "h", "i">>,
   <<"v", "a", "r", "p", "h", "i">>, <<"c", "h", "i">>, <<"p", "s", "i">>,
   <<"o", "m", "e", "g", "a">>, <<"G", "a", "m", "m", "a">>,
   <<"D", "e", "l", "t", "a">>, <<"T", "h", "e", "t", "a">>,
   <<"L", "a", "m", "b", "d", "a">>, <<"X", "i">>, <<"P", "i">>,
   <<"S", "i", "g", "m", "a">>, <<"U", "p", "s", "i", "l", "o", "n">>,
   <<"P", "h", "i">>, <<"P", "s", "i">>, <<"O", "m", "e", "g", "a">>,
   <<"p", "m">>, <<"m", "p">>, <<"t", "i", "m", "e", "s">>,
   <<"d", "i", "v">>, <<"c", "d", "o", "t">>, <<"c", "d", "o", "t", "s">>,
   <<"l", "d", "o", "t", "s">>, <<"v", "d", "o", "t", "s">>,
   <<"d", "d", "o", "t", "s">>, <<"a", "s", "t">>, <<"s", "t", "a", "r">>,
   <<"c", "i", "r", "c">>, <<"b", "u", "l", "l", "e", "t">>,
   <<"o", "p", "l", "u", "s">>, <<"o", "m", "i", "n", "u", "s">>,
   <<"o", "t", "i", "m", "e", "s">>, <<"o", "s", "l", "a", "s", "h">>,
   <<"c", "a", "p">>, <<"c", "u", "p">>, <<"u", "p", "l", "u", "s">>,
   <<"s", "q", "c", "a", "p">>, <<"s", "q", "c", "u", "p">>,
   <<"v", "e", "e">>, <<"w", "e", "d", "g", "e">>,
   <<"s", "e", "t", "m", "i", "n", "u", "s">>, <<"w", "r">>,
   <<"d", "i", "a", "m", "o", "n", "d">>,
   <<"b", "i", "g", "t", "r", "i", "a", "n", "g", "l", "e", "u", "p">>,
   <<"b", "i", "g", "t", "r", "i", "a", "n", "g", "l", "e", "d", "o", "w", "n">>,
   <<"t", "r", "i", "a", "n", "g", "l", "e", "l", "e", "f", "t">>,
   <<"t", "r", "i", "a", "n", "g", "l", "e", "r", "i", "g", "h", "t">>,
   <<"l", "h", "d">>, <<"r", "h", "d">>, <<"u", "n", "l", "h", "d">>,
   <<"u", "n", "r", "h", "d">>, <<"l", "e", "q">>, <<"l", "e">>,
   <<"g", "e", "q">>, <<"g", "e">>, <<"n", "e", "q">>, <<"n", "e">>,
   <<"s", "i", "m">>, <<"s", "i", "m", "e", "q">>,
   <<"a", "p", "p", "r", "o", "x">>, <<"c", "o", "n", "g">>,
   <<"e", "q", "u", "i", "v">>, <<"p", "r", "e", "c">>,
   <<"s", "u", "c", "c">>, <<"p", "r", "e", "c", "e", "q">>,
   <<"s", "u", "c", "c", "e", "q">>, <<"l", "l">>, <<"g", "g">>,
   <<"s", "u", "b", "s", "e", "t">>, <<"s", "u", "p", "s", "e", "t">>,
   <<"s", "u", "b", "s", "e", "t", "e", "q">>,
   <<"s", "u", "p", "s", "e", "t", "e", "q">>,
   <<"s", "q", "s", "u", "b", "s", "e", "t">>,
   <<"s", "q", "s", "u", "p", "s", "e", "t">>,
   <<"s", "q", "s", "u", "b", "s", "e", "t", "e", "q">>,
   <<"s", "q", "s", "u", "p", "s", "e", "t", "e", "q">>, <<"i", "n">>,
   <<"n", "i">>, <<"n", "o", "t", "i", "n">>, <<"v", "d", "a", "s", "h">>,
   <<"d", "a", "s", "h", "v">>, <<"m", "o", "d", "e", "l", "s">>,
   <<"p", "e", "r", "p">>, <<"m", "i", "d">>,
   <<"p", "a", "r", "a", "l", "l", "e", "l">>,
   <<"b", "o", "w", "t", "i", "e">>, <<"s", "m", "i", "l", "e">>,
   <<"f", "r", "o", "w", "n">>, <<"p", "r", "o", "p", "t", "o">>,
   <<"l", "e", "f", "t", "a", "r", "r", "o", "w">>,
   <<"r", "i", "g", "h", "t", "a", "r", "r", "o", "w">>,
   <<"l", "e", "f", "t", "r", "i", "g", "h", "t", "a", "r", "r", "o", "w">>,
   <<"L", "e", "f", "t", "a", "r", "r", "o", "w">>,
   <<"R", "i", "g", "h", "t", "a", "r", "r", "o", "w">>,
   <<"L", "e", "f", "t", "r", "i", "g", "h", "t", "a", "r", "r", "o", "w">>,
   <<"l", "o", "n", "g", "l", "e", "f", "t", "a", "r", "r", "o", "w">>,
   <<"l", "o", "n", "g", "r", "i", "g", "h", "t", "a", "r", "r", "o", "w">>,
   <<"l", "o", "n", "g", "l", "e", "f", "t", "r", "i", "g", "h", "t", "a", "r", "r", "o", "w">>,
   <<"L", "o", "n", "g", "l", "e", "f", "t", "a", "r", "r", "o", "w">>,
   <<"L", "o", "n", "g", "r", "i", "g", "h", "t", "a", "r", "r", "o", "w">>,
   <<"L", "o", "n", "g", "l", "e", "f", "t", "r", "i", "g", "h", "t", "a", "r", "r", "o", "w">>,
   <<"u", "p", "a", "r", "r", "o", "w">>,
   <<"d", "o", "w", "n", "a", "r", "r", "o", "w">>,
   <<"u", "p", "d", "o", "w", "n", "a", "r", "r", "o", "w">>,
   <<"U", "p", "a", "r", "r", "o", "w">>,
   <<"D", "o", "w", "n", "a", "r", "r", "o", "w">>,
   <<"U", "p", "d", "o", "w", "n", "a", "r", "r", "o", "w">>,
   <<"n", "e", "a", "r", "r", "o", "w">>,
   <<"s", "e", "a", "r", "r", "o", "w">>,
   <<"n", "w", "a", "r", "r", "o", "w">>,
   <<"s", "w", "a", "r", "r", "o", "w">>, <<"m", "a", "p", "s", "t", "o">>,
   <<"l", "o", "n", "g", "m", "a", "p", "s", "t", "o">>,
   <<"h", "o", "o", "k", "l", "e", "f", "t", "a", "r", "r", "o", "w">>,
   <<"h", "o", "o", "k", "r", "i", "g", "h", "t", "a", "r", "r", "o", "w">>,
   <<"l", "e", "f", "t", "h", "a", "r", "p", "o", "o", "n", "u", "p">>,
   <<"l", "e", "f", "t", "h", "a", "r", "p", "o", "o", "n", "d", "o", "w", "n">>,
   <<"r", "i", "g", "h", "t", "h", "a", "r", "p", "o", "o", "n", "u", "p">>,
   <<"r", "i", "g", "h", "t", "h", "a", "r", "p", "o", "o", "n", "d", "o", "w", "n">>,
   <<"r", "i", "g", "h", "t", "l", "e", "f", "t", "h", "a", "r", "p", "o", "o", "n", "s">>,
   <<"l", "e", "a", "d", "s", "t", "o">>, <<"f", "o", "r", "a", "l", "l">>,
   <<"e", "x", "i", "s", "t", "s">>, <<"n", "e", "x", "i", "s", "t", "s">>,
   <<"n", "e", "g">>, <<"l", "n", "o", "t">>, <<"l", "a", "n", "d">>,
   <<"l", "o", "r">>, <<"t", "o", "p">>, <<"b", "o", "t">>,
   <<"e", "m", "p", "t", "y", "s", "e", "t">>,
   <<"v", "a", "r", "n", "o", "t", "h", "i", "n", "g">>,
   <<"i", "n", "f", "t", "y">>, <<"n", "a", "b", "l", "a">>,
   <<"p", "a", "r", "t", "i", "a", "l">>, <<"a", "n", "g", "l", "e">>,
   <<"p", "r", "i", "m", "e">>,
   <<"b", "a", "c", "k", "p", "r", "i", "m", "e">>,
   <<"t", "r", "i", "a", "n", "g", "l", "e">>,
   <<"s", "q", "u", "a", "r", "e">>,
   <<"b", "l", "a", "c", "k", "s", "q", "u", "a", "r", "e">>,
   <<"l", "o", "z", "e", "n", "g", "e">>,
   <<"b", "l", "a", "c", "k", "l", "o", "z", "e", "n", "g", "e">>,
   <<"c", "l", "u", "b", "s", "u", "i", "t">>,
   <<"d", "i", "a", "m", "o", "n", "d", "s", "u", "i", "t">>,
   <<"h", "e", "a", "r", "t", "s", "u", "i", "t">>,
   <<"s", "p", "a", "d", "e", "s", "u", "i", "t">>, <<"f", "l", "a", "t">>,
   <<"n", "a", "t", "u", "r", "a", "l">>, <<"s", "h", "a", "r", "p">>,
   <<"R", "e">>, <<"I", "m">>, <<"w", "p">>, <<"a", "l", "e", "p", "h">>,
   <<"b", "e", "t", "h">>, <<"g", "i", "m", "e", "l">>,
   <<"d", "a", "l", "e", "t", "h">>, <<"h", "b", "a", "r">>,
   <<"e", "l", "l">>, <<"i", "m", "a", "t", "h">>,
   <<"j", "m", "a", "t", "h">>, <<"l", "e", "f", "t">>,
   <<"r", "i", "g", "h", "t">>, <<"b", "i", "g">>, <<"B", "i", "g">>,
   <<"b", "i", "g", "g">>, <<"B", "i", "g", "g">>,
   <<"l", "b", "r", "a", "c", "e">>, <<"r", "b", "r", "a", "c", "e">>,
   <<"l", "b", "r", "a", "c", "k">>, <<"r", "b", "r", "a", "c", "k">>,
   <<"l", "a", "n", "g", "l", "e">>, <<"r", "a", "n", "g", "l", "e">>,
   <<"l", "c", "e", "i", "l">>, <<"r", "c", "e", "i", "l">>,
   <<"l", "f", "l", "o", "o", "r">>, <<"r", "f", "l", "o", "o", "r">>,
   <<"v", "e", "r", "t">>, <<"V", "e", "r", "t">>,
   <<"b", "a", "c", "k", "s", "l", "a", "s", "h">>,
   <<"o", "v", "e", "r", "l", "i", "n", "e">>,
   <<"u", "n", "d", "e", "r", "l", "i", "n", "e">>,
   <<"o", "v", "e", "r", "b", "r", "a", "c", "e">>,
   <<"u", "n", "d", "e", "r", "b", "r", "a", "c", "e">>, <<"h", "a", "t">>,
   <<"c", "h", "e", "c", "k">>, <<"t", "i", "l", "d", "e">>,
   <<"a", "c", "u", "t", "e">>, <<"g", "r", "a", "v", "e">>,
   <<"d", "o", "t">>, <<"d", "d", "o", "t">>, <<"b", "r", "e", "v", "e">>,
   <<"b", "a", "r">>, <<"v", "e", "c">>,
   <<"w", "i", "d", "e", "h", "a", "t">>,
   <<"w", "i", "d", "e", "t", "i", "l", "d", "e">>, <<"t", "e", "x", "t">>,
   <<"t", "e", "x", "t", "b", "f">>, <<"t", "e", "x", "t", "i", "t">>,
   <<"t", "e", "x", "t", "r", "m">>, <<"t", "e", "x", "t", "s", "f">>,
   <<"t", "e", "x", "t", "t", "t">>, <<"m", "a", "t", "h", "b", "f">>,
   <<"m", "a", "t", "h", "i", "t">>, <<"m", "a", "t", "h", "r", "m">>,
   <<"m", "a", "t", "h", "s", "f">>, <<"m", "a", "t", "h", "t", "t">>,
   <<"m", "a", "t", "h", "b", "b">>, <<"m", "a", "t", "h", "c", "a", "l">>,
   <<"m", "a", "t", "h", "f", "r", "a", "k">>,
   <<"m", "a", "t", "h", "s", "c", "r">>, <<"b", "i", "n", "o", "m">>,
   <<"t", "b", "i", "n", "o", "m">>, <<"d", "b", "i", "n", "o", "m">>,
   <<"c", "h", "o", "o", "s", "e">>, <<"a", "t", "o", "p">>,
   <<"o", "v", "e", "r">>, <<"a", "b", "o", "v", "e">>,
   <<"b", "e", "g", "i", "n">>, <<"e", "n", "d">>,
   <<"m", "a", "t", "r", "i", "x">>, <<"p", "m", "a", "t", "r", "i", "x">>,
   <<"b", "m", "a", "t", "r", "i", "x">>,
   <<"B", "m", "a", "t", "r", "i", "x">>,
   <<"v", "m", "a", "t", "r", "i", "x">>,
   <<"V", "m", "a", "t", "r", "i", "x">>, <<"a", "r", "r", "a", "y">>,
   <<"c", "a", "s", "e", "s">>, <<"a", "l", "i", "g", "n", "e", "d">>,
   <<"g", "a", "t", "h", "e", "r", "e", "d">>, <<"s", "p", "l", "i", "t">>,
   <<"h", "s", "p", "a", "c", "e">>, <<"v", "s", "p", "a", "c", "e">>,
   <<"q", "u", "a", "d">>, <<"q", "q", "u", "a", "d">>,
   <<"t", "h", "i", "n", "s", "p", "a", "c", "e">>,
   <<"e", "n", "s", "p", "a", "c", "e">>, <<"k", "e", "r", "n">>,
   <<"m", "k", "e", "r", "n">>, <<"h", "f", "i", "l", "l">>,
   <<"v", "f", "i", "l", "l">>, <<"h", "s", "k", "i", "p">>,
   <<"v", "s", "k", "i", "p">>, <<"c", "o", "l", "o", "r">>,
   <<"t", "e", "x", "t", "c", "o", "l", "o", "r">>,
   <<"c", "o", "l", "o", "r", "b", "o", "x">>,
   <<"f", "c", "o", "l", "o", "r", "b", "o", "x">>, <<"n", "o", "t">>,
   <<"c", "a", "n", "c", "e", "l">>, <<"b", "c", "a", "n", "c", "e", "l">>,
   <<"x", "c", "a", "n", "c", "e", "l">>,
   <<"c", "a", "n", "c", "e", "l", "t", "o">>, <<"b", "o", "x", "e", "d">>,
   <<"f", "b", "o", "x">>, <<"f", "r", "a", "m", "e">>,
   <<"f", "r", "a", "m", "e", "b", "o", "x">>}

\* commandPattern.exec(s) with commandPattern.lastIndex = from, for
\* /\\([a-zA-Z]+)/g: the leftmost backslash before a letter, and the
\* longest run of letters after it
CommandStarts(s, from) ==
  {i \in from..(Len(s) - 2) : CharAt(s, i) = "\\" /\ IsLetter(CharAt(s, i + 1))}

CommandExec(s, from) ==
  IF CommandStarts(s, from) = {} THEN Null
  ELSE LET i == Min(CommandStarts(s, from))
           e == Min({k \in (i + 2)..Len(s) : k = Len(s) \/ ~IsLetter(CharAt(s, k))})
       IN  [index |-> i, m0 |-> Substring(s, i, e), m1 |-> Substring(s, i + 1, e)]

Unsupported(command) == [msg |-> "Unsupported command: \\", command |-> command]

\* return d from version v
Return(v, d) ==
  /\ vpc' = [vpc EXCEPT ![v] = "done"]
  /\ returned' = [returned EXCEPT ![v] = d]

\* the brace loop returns: braceCount fell below 0
BracesExtra(v) ==
  /\ vpc[v] = "braces"
  /\ BraceLoop(latex, 1, 0) < 0
  /\ Return(v, Diagnostic("Mismatched braces: extra closing brace"))
  /\ UNCHANGED <<latex, commandLastIndex>>
  /\ UNCHANGED notValidateVars

\* the incomplete commands looked at before the missing brace
BracesMissingUnlessIncomplete(v) ==
  /\ vpc[v] = "braces"
  /\ BraceLoop(latex, 1, 0) > 0
  /\ Return(v, IF FirstIncomplete(latex) # Valid
                 THEN FirstIncomplete(latex)
                 ELSE Diagnostic("Mismatched braces: missing closing brace"))
  /\ UNCHANGED <<latex, commandLastIndex>>
  /\ UNCHANGED notValidateVars

\* after the brace loop: braceCount > 0
BracesMissing(v) ==
  /\ vpc[v] = "braces"
  /\ BraceLoop(latex, 1, 0) > 0
  /\ Return(v, Diagnostic("Mismatched braces: missing closing brace"))
  /\ UNCHANGED <<latex, commandLastIndex>>
  /\ UNCHANGED notValidateVars

\* the braces are balanced: on to the incomplete commands
BracesBalanced(v) ==
  /\ vpc[v] = "braces"
  /\ BraceLoop(latex, 1, 0) = 0
  /\ vpc' = [vpc EXCEPT ![v] = "incomplete"]
  /\ UNCHANGED <<latex, commandLastIndex, returned>>
  /\ UNCHANGED notValidateVars

\* a pattern of incompleteCommands matches
IncompleteCommand(v) ==
  /\ vpc[v] = "incomplete"
  /\ FirstIncomplete(latex) # Valid
  /\ Return(v, FirstIncomplete(latex))
  /\ UNCHANGED <<latex, commandLastIndex>>
  /\ UNCHANGED notValidateVars

\* commandPattern made once, outside the function
CommandsNextSharedPattern ==
  /\ vpc[1] = "incomplete"
  /\ FirstIncomplete(latex) = Valid
  /\ vpc' = [vpc EXCEPT ![1] = "commands"]
  /\ UNCHANGED <<latex, returned, commandLastIndex>>
  /\ UNCHANGED notValidateVars

\* version 1, no pattern matches: on to the commands, with a new commandPattern
CommandsNext ==
  /\ vpc[1] = "incomplete"
  /\ FirstIncomplete(latex) = Valid
  /\ vpc' = [vpc EXCEPT ![1] = "commands"]
  /\ commandLastIndex' = 0
  /\ UNCHANGED <<latex, returned>>
  /\ UNCHANGED notValidateVars

\* version 2 without the third pattern of incompleteCommands
NoCommandCheckIgnoresOneArgument ==
  /\ vpc[2] = "incomplete"
  /\ ~EndsWithCommand(latex, FracWord)
  /\ ~EndsWithCommand(latex, SqrtWord)
  /\ Return(2, Valid)
  /\ UNCHANGED <<latex, commandLastIndex>>
  /\ UNCHANGED notValidateVars

\* version 2, no pattern matches: return null
NoCommandCheck ==
  /\ vpc[2] = "incomplete"
  /\ FirstIncomplete(latex) = Valid
  /\ Return(2, Valid)
  /\ UNCHANGED <<latex, commandLastIndex>>
  /\ UNCHANGED notValidateVars

\* the command loop returning null at its first known command
CommandKnownReturnsValid ==
  /\ vpc[1] = "commands"
  /\ LET match == CommandExec(latex, commandLastIndex) IN
       /\ match # Null
       /\ match.m1 \in knownCommands
       /\ commandLastIndex' = match.index + Len(match.m0)
  /\ Return(1, Valid)
  /\ UNCHANGED latex
  /\ UNCHANGED notValidateVars

\* one iteration of the command loop: a known command
CommandKnown ==
  /\ vpc[1] = "commands"
  /\ LET match == CommandExec(latex, commandLastIndex) IN
       /\ match # Null
       /\ match.m1 \in knownCommands
       /\ commandLastIndex' = match.index + Len(match.m0)
  /\ UNCHANGED <<latex, vpc, returned>>
  /\ UNCHANGED notValidateVars

\* one iteration of the command loop: a command that is not in knownCommands
CommandUnsupported ==
  /\ vpc[1] = "commands"
  /\ LET match == CommandExec(latex, commandLastIndex) IN
       /\ match # Null
       /\ match.m1 \notin knownCommands
       /\ commandLastIndex' = match.index + Len(match.m0)
       /\ Return(1, Unsupported(match.m1))
  /\ UNCHANGED latex
  /\ UNCHANGED notValidateVars

\* commandPattern.exec returns null: return null
CommandsEnd ==
  /\ vpc[1] = "commands"
  /\ CommandExec(latex, commandLastIndex) = Null
  /\ commandLastIndex' = 0
  /\ Return(1, Valid)
  /\ UNCHANGED latex
  /\ UNCHANGED notValidateVars

\* the expressions of test cases 10, 11 and 12, as parseContent extracts them
TestCase10Latex == <<"\\", "f", "r", "a", "c", "{", "a", "+", "b", " ", "}", "{", " ", "c">>

TestCase11Latex == <<"\\", "s", "q", "r", "t", "{", "2", " ", "+">>

TestCase12Latex ==
  <<"\\", "u", "n", "k", "n", "o", "w", "n", "c", "o", "m", "m", "a", "n", "d", "{", "x", "}">>

\* \frac{a}{b}
FracExample == <<"\\", "f", "r", "a", "c", "{", "a", "}", "{", "b", "}">>

ValidateExamples == {TestCase10Latex, TestCase11Latex, TestCase12Latex, FracExample}

ValidateTokens ==
  {FracWord, SqrtWord, <<"\\", "F", "r", "a", "c">>, <<"\\", "p", "i">>,
   <<"\\", "z", "z">>, <<"{", "a", "}">>, <<"{">>, <<"}">>, <<" ">>, <<"a">>}

\* the strings made of at most n tokens
RECURSIVE TokenStrings(_)
TokenStrings(n) ==
  IF n = 0 THEN {<<>>}
  ELSE TokenStrings(n - 1)
         \cup {s \o token : s \in TokenStrings(n - 1), token \in ValidateTokens}

ValidateInputs == TokenStrings(MaxTokens) \cup ValidateExamples

\* parseContent is not called
ParseIdle ==
  /\ content = <<>>
  /\ pc = "idle"
  /\ displayLastIndex = 0
  /\ inlineLastIndex = 0
  /\ allMatches = <<>>
  /\ parts = <<>>
  /\ currentIndex = 0
  /\ forEachIndex = 1

\* both versions of validateLatex are called with the same expression
InitValidate ==
  /\ ParseIdle
  /\ latex \in ValidateInputs
  /\ vpc = [v \in Variants |-> "braces"]
  /\ commandLastIndex = 0
  /\ returned = [v \in Variants |-> NotReturned]
  /\ NoCalls
  /\ NoComponents
  /\ NoViews

NextValidate ==
  \/ \E v \in Variants : BracesExtra(v)
  \/ \E v \in Variants : BracesMissing(v)
  \/ \E v \in Variants : BracesBalanced(v)
  \/ \E v \in Variants : IncompleteCommand(v)
  \/ CommandsNext
  \/ NoCommandCheck
  \/ CommandKnown
  \/ CommandUnsupported
  \/ CommandsEnd

SpecValidate == InitValidate /\ [][NextValidate]_vars

---------------------------------------------------------------------------
(* Vocabulary of the properties of validateLatex *)

Returned(v) == vpc[v] = "done"

ExtraBrace == Diagnostic("Mismatched braces: extra closing brace")

MissingBrace == Diagnostic("Mismatched braces: missing closing brace")

IncompleteFrac == Diagnostic("Incomplete \\frac command")

IncompleteSqrt == Diagnostic("Incomplete \\sqrt command")

FracNeedsTwo == Diagnostic("\\frac needs two arguments")

\* the number of characters c in s
Count(s, c) == Cardinality({i \in 1..Len(s) : s[i] = c})

\* a prefix of s has more "}" than "{"
ClosesTooEarly(s) ==
  \E n \in 1..Len(s) : Count(SubSeq(s, 1, n), "}") > Count(SubSeq(s, 1, n), "{")

Balanced(s) == ~ClosesTooEarly(s) /\ Count(s, "{") = Count(s, "}")

\* s ends with the word, case ignored
HasSuffix(s, word) ==
  /\ Len(s) >= Len(word)
  /\ \A n \in 1..Len(word) : FoldCase(s[Len(s) - Len(word) + n]) = word[n]

\* s ends with the command and optional white space
EndsIn(s, word) == HasSuffix(TrimEnd(s), word)

\* s without its last {...} group and the white space after it, or s
\* itself when it does not end with a group that holds no "}"
DropLastGroup(s) ==
  LET t == TrimEnd(s)
      opens == {j \in 1..Len(t) : t[j] = "{"}
      closes == {k \in 1..(Len(t) - 1) : t[k] = "}"}
  IN  IF t # <<>> /\ t[Len(t)] = "}" /\ opens # {}
         /\ \E o \in opens : \A q \in closes : q < o
        THEN SubSeq(t, 1, Min({o \in opens : \A q \in closes : q < o}) - 1)
        ELSE s

EndsWithGroup(s) == DropLastGroup(s) # s

\* s ends with \frac and one group
EndsInFracOneGroup(s) == EndsWithGroup(s) /\ EndsIn(DropLastGroup(s), FracWord)

\* s ends with \frac{..}{..} or \sqrt{..}
EndsInCompleteCommand(s) ==
  /\ EndsWithGroup(s)
  /\ \/ EndsIn(DropLastGroup(s), SqrtWord)
     \/ /\ EndsWithGroup(DropLastGroup(s))
        /\ EndsIn(DropLastGroup(DropLastGroup(s)), FracWord)

\* the offsets of the backslash-plus-letters tokens of s, and their names
CommandOffsets(s) ==
  {i \in 0..(Len(s) - 2) : CharAt(s, i) = "\\" /\ IsLetter(CharAt(s, i + 1))}

RECURSIVE LettersFrom(_, _)
LettersFrom(s, i) ==
  IF i < Len(s) /\ IsLetter(CharAt(s, i))
    THEN <<CharAt(s, i)>> \o LettersFrom(s, i + 1)
    ELSE <<>>

UnknownOffsets(s) == {i \in CommandOffsets(s) : LettersFrom(s, i + 1) \notin knownCommands}

(* C12: the result is the extra-closing-brace diagnostic exactly when a    *)
(* prefix of the expression has more "}" than "{"; otherwise it is the     *)
(* missing-closing-brace diagnostic exactly when the expression has more   *)
(* "{" than "}".                                                           *)
C12_BraceBalance ==
  \A v \in Variants :
    Returned(v) =>
      /\ returned[v] = ExtraBrace <=> ClosesTooEarly(latex)
      /\ ~ClosesTooEarly(latex) =>
           (returned[v] = MissingBrace <=> Count(latex, "{") > Count(latex, "}"))

\* test case 10 and an expression that closes before it opens
C12_Witness ==
  /\ Returned(1)
  /\ latex = TestCase10Latex
  /\ returned[1] = MissingBrace

(* C13: validateLatex never stops without returning, returns null or one   *)
(* diagnostic, that of the first failing check: an unbalanced expression   *)
(* gets a brace diagnostic even when it ends in an incomplete command or   *)
(* holds an unknown command, a balanced one ending in an incomplete        *)
(* command gets that diagnostic even when it holds an unknown command.     *)
C13_FirstFailingCheck ==
  \A v \in Variants :
    /\ vpc[v] \in {"braces", "incomplete", "commands"} => ENABLED NextValidate
    /\ Returned(v) =>
         /\ \/ returned[v] \in {Valid, ExtraBrace, MissingBrace, IncompleteFrac,
                                IncompleteSqrt, FracNeedsTwo}
            \/ /\ returned[v].msg = "Unsupported command: \\"
               /\ returned[v].command # <<>>
         /\ ~Balanced(latex) => returned[v] \in {ExtraBrace, MissingBrace}
         /\ (/\ Balanced(latex)
             /\ \/ EndsIn(latex, FracWord)
                \/ EndsIn(latex, SqrtWord)
                \/ EndsInFracOneGroup(latex)) =>
              returned[v] \in {IncompleteFrac, IncompleteSqrt, FracNeedsTwo}

\* unbalanced, ending in an incomplete command, with an unknown command
C13_Witness ==
  /\ Returned(1)
  /\ ~Balanced(latex)
  /\ EndsIn(latex, FracWord) \/ EndsIn(latex, SqrtWord)
  /\ UnknownOffsets(latex) # {}
  /\ returned[1] \in {ExtraBrace, MissingBrace}

(* C14: a balanced expression gets Incomplete \frac command if it ends     *)
(* with \frac and optional white space, Incomplete \sqrt command if it     *)
(* ends with \sqrt and optional white space, \frac needs two arguments if  *)
(* it ends with \frac, one group and optional white space, the command     *)
(* names in any case; one that ends in a complete \frac{a}{b} or \sqrt{x}  *)
(* gets none of the three.                                                 *)
C14_IncompleteCommands ==
  \A v \in Variants :
    (Returned(v) /\ Balanced(latex)) =>
      /\ EndsIn(latex, FracWord) => returned[v] = IncompleteFrac
      /\ EndsIn(latex, SqrtWord) => returned[v] = IncompleteSqrt
      /\ EndsInFracOneGroup(latex) => returned[v] = FracNeedsTwo
      /\ EndsInCompleteCommand(latex) =>
           returned[v] \notin {IncompleteFrac, IncompleteSqrt, FracNeedsTwo}

\* \Frac, in capitals, with one argument
C14_Witness ==
  /\ Returned(1)
  /\ Balanced(latex)
  /\ EndsInFracOneGroup(latex)
  /\ \E i \in 1..Len(latex) : latex[i] = "F"
  /\ returned[1] = FracNeedsTwo

(* C15: with the allow-list, an expression that passes the brace and the   *)
(* incomplete-command checks gets Unsupported command for its leftmost     *)
(* backslash-plus-letters token that is not in the allow-list, and null    *)
(* exactly when all its tokens are in the list; \unknowncommand{x} is      *)
(* rejected and \frac{a}{b} accepted.                                      *)
C15_UnknownCommand ==
  Returned(1) =>
    /\ (/\ Balanced(latex)
        /\ ~EndsIn(latex, FracWord)
        /\ ~EndsIn(latex, SqrtWord)
        /\ ~EndsInFracOneGroup(latex)) =>
         IF UnknownOffsets(latex) = {}
           THEN returned[1] = Valid
           ELSE returned[1] =
                  Unsupported(LettersFrom(latex, Min(UnknownOffsets(latex)) + 1))
    /\ returned[1] = Valid => UnknownOffsets(latex) = {}
    /\ latex = TestCase12Latex =>
         returned[1] = Unsupported(SubSeq(TestCase12Latex, 2, 15))
    /\ latex = FracExample => returned[1] = Valid

\* an unknown command after a known one
C15_Witness ==
  /\ Returned(1)
  /\ returned[1].msg = "Unsupported command: \\"
  /\ CommandOffsets(latex) \ UnknownOffsets(latex) # {}
  /\ Min(CommandOffsets(latex)) \notin UnknownOffsets(latex)

(* C16: on every expression the two versions return the same, except that *)
(* where the version with the allow-list returns Unsupported command the   *)
(* other returns null.                                                     *)
C16_VersionsAgree ==
  (Returned(1) /\ Returned(2)) =>
    returned[2] = IF returned[1].msg = "Unsupported command: \\"
                    THEN Valid
                    ELSE returned[1]

C16_Witness ==
  /\ Returned(1) /\ Returned(2)
  /\ latex = TestCase12Latex
  /\ returned[1].msg = "Unsupported command: \\"
  /\ returned[2] = Valid

---------------------------------------------------------------------------
(* Calls of parseContent and of validateLatex, one after the other *)

\* $1$a$
CurrencyExample == <<"$", "1", "$", "a", "$">>

\* \pi\zz
KnownThenUnknown == <<"\\", "p", "i", "\\", "z", "z">>

CallContents == {PairingExample, NestedExample, CurrencyExample}

CallExpressions ==
  {TestCase10Latex, TestCase12Latex, FracExample, KnownThenUnknown,
   FracWord, <<"}">>}

BothReturned == \A v \in Variants : vpc[v] = "done"

\* no call is running
NoCallRunning ==
  /\ pc \in {"idle", "done"}
  /\ BothReturned \/ \A v \in Variants : vpc[v] = "idle"

\* the caller takes the result of the call that has returned
TakeResult ==
  /\ parsed' = parsed \cup
       (IF pc = "done" THEN {[input |-> content, result |-> parts]} ELSE {})
  /\ validated' = validated \cup
       (IF BothReturned THEN {[input |-> latex, result |-> returned]} ELSE {})

\* a call of parseContent: new regular expressions, new arrays
CallParseContent ==
  /\ NoCallRunning
  /\ TakeResult
  /\ content' \in CallContents
  /\ pc' = "display"
  /\ displayLastIndex' = 0
  /\ inlineLastIndex' = 0
  /\ allMatches' = <<>>
  /\ parts' = <<>>
  /\ currentIndex' = 0
  /\ forEachIndex' = 1
  /\ latex' = <<>>
  /\ vpc' = [v \in Variants |-> "idle"]
  /\ returned' = [v \in Variants |-> NotReturned]
  /\ UNCHANGED commandLastIndex
  /\ UNCHANGED <<componentVars, rendererVars, viewsVars>>

\* a call of validateLatex, in its two versions; commandPattern is made
\* later, in CommandsNext
CallValidateLatex ==
  /\ NoCallRunning
  /\ TakeResult
  /\ latex' \in CallExpressions
  /\ vpc' = [v \in Variants |-> "braces"]
  /\ returned' = [v \in Variants |-> NotReturned]
  /\ UNCHANGED commandLastIndex
  /\ UNCHANGED <<componentVars, rendererVars, viewsVars>>
  /\ content' = <<>>
  /\ pc' = "idle"
  /\ displayLastIndex' = 0
  /\ inlineLastIndex' = 0
  /\ allMatches' = <<>>
  /\ parts' = <<>>
  /\ currentIndex' = 0
  /\ forEachIndex' = 1

InitCalls ==
  /\ ParseIdle
  /\ ValidateIdle
  /\ NoCalls
  /\ NoComponents
  /\ NoViews

NextCalls ==
  \/ CallParseContent
  \/ CallValidateLatex
  \/ Next
  \/ NextValidate

SpecCalls == InitCalls /\ [][NextCalls]_vars

(* C17: parseContent and validateLatex are deterministic and keep no      *)
(* state between calls: a call returns what every earlier call with the   *)
(* same input returned, whatever calls came in between.                   *)
C17_SameInputSameResult ==
  /\ pc = "done" =>
       \A o \in parsed : o.input = content => o.result = parts
  /\ BothReturned =>
       \A o \in validated : o.input = latex => o.result = returned
  /\ \A o1 \in parsed : \A o2 \in parsed :
       o1.input = o2.input => o1.result = o2.result
  /\ \A o1 \in validated : \A o2 \in validated :
       o1.input = o2.input => o1.result = o2.result

\* a second call with an expression whose first call returned from inside
\* the command loop, after calls with other inputs of both functions
C17_Witness ==
  /\ BothReturned
  /\ returned[1].msg = "Unsupported command: \\"
  /\ \E o \in validated : o.input = latex
  /\ \E o \in validated : o.input # latex
  /\ \E o1 \in parsed : \E o2 \in parsed : o1.input # o2.input

---------------------------------------------------------------------------
(* The LatexRenderer component *)

\* String.prototype.substring: negative offsets count as 0, and the two
\* offsets are taken in increasing order
substring(s, indexStart, indexEnd) ==
  LET a == IF indexStart < 0 THEN 0 ELSE indexStart
      b == IF indexEnd < 0 THEN 0 ELSE indexEnd
  IN  IF a <= b THEN SubSeq(s, a + 1, b) ELSE SubSeq(s, b + 1, a)

startsWith(s, word) ==
  Len(s) >= Len(word) /\ SubSeq(s, 1, Len(word)) = word

endsWith(s, word) ==
  Len(s) >= Len(word) /\ SubSeq(s, Len(s) - Len(word) + 1, Len(s)) = word

OpenBracket == <<"\\", "[">>

CloseBracket == <<"\\", "]">>

\* cleanLatex that does not trim what it finds between the delimiters
CleanLatexNoInnerTrim(s) ==
  LET trimmed == Trim(s)
      noBrackets ==
        IF startsWith(trimmed, OpenBracket) /\ endsWith(trimmed, CloseBracket)
          THEN substring(trimmed, 2, Len(trimmed) - 2)
          ELSE trimmed
      noDollars ==
        IF startsWith(noBrackets, Dollar \o Dollar) /\ endsWith(noBrackets, Dollar \o Dollar)
          THEN substring(noBrackets, 2, Len(noBrackets) - 2)
          ELSE noBrackets
  IN  IF /\ startsWith(noDollars, Dollar)
         /\ endsWith(noDollars, Dollar)
         /\ ~startsWith(noDollars, Dollar \o Dollar)
        THEN substring(noDollars, 1, Len(noDollars) - 1)
        ELSE noDollars

\* the cleanLatex of the component
CleanLatex(s) ==
  LET trimmed == Trim(s)
      noBrackets ==
        IF startsWith(trimmed, OpenBracket) /\ endsWith(trimmed, CloseBracket)
          THEN Trim(substring(trimmed, 2, Len(trimmed) - 2))
          ELSE trimmed
      noDollars ==
        IF startsWith(noBrackets, Dollar \o Dollar) /\ endsWith(noBrackets, Dollar \o Dollar)
          THEN Trim(substring(noBrackets, 2, Len(noBrackets) - 2))
          ELSE noBrackets
  IN  IF /\ startsWith(noDollars, Dollar)
         /\ endsWith(noDollars, Dollar)
         /\ ~startsWith(noDollars, Dollar \o Dollar)
        THEN Trim(substring(noDollars, 1, Len(noDollars) - 1))
        ELSE noDollars

ErrorElement(diagnostic) == [type |-> "error", content |-> <<>>, error |-> diagnostic]

FallbackElement(s) == [type |-> "fallback", content |-> s, error |-> Valid]

NativeLatexViewElement(s) == [type |-> "NativeLatexView", content |-> s, error |-> Valid]

\* the two memos: cleanLatex, then the call of validateLatex
CleanAndValidate ==
  /\ cpc = "clean"
  /\ cleanLatex' = CleanLatex(props.latex)
  /\ latex' = cleanLatex'
  /\ vpc' = [v \in Variants |-> IF v = version THEN "braces" ELSE "idle"]
  /\ returned' = [v \in Variants |-> NotReturned]
  /\ cpc' = "validate"
  /\ UNCHANGED <<commandLastIndex, props, platformOS, version, validationError,
                 element, onErrorCalls>>
  /\ UNCHANGED <<parseVars, callsVars, rendererVars, viewsVars>>

\* validateLatex has returned, and the component returns its element
Returns(e) ==
  /\ validationError' = returned[version]
  /\ element' = e
  /\ cpc' = "effect"
  /\ UNCHANGED <<props, platformOS, version, cleanLatex, onErrorCalls>>
  /\ UNCHANGED <<parseVars, validateVars, callsVars, rendererVars, viewsVars>>

\* the banner, whether showErrorInline is set or not
ReturnInlineErrorAlways ==
  /\ cpc = "validate" /\ vpc[version] = "done"
  /\ returned[version] # Valid
  /\ Returns(ErrorElement(returned[version]))

\* validationError && showErrorInline: the banner
ReturnInlineError ==
  /\ cpc = "validate" /\ vpc[version] = "done"
  /\ returned[version] # Valid /\ props.showErrorInline
  /\ Returns(ErrorElement(returned[version]))

\* not Android: the placeholder
ReturnFallback ==
  /\ cpc = "validate" /\ vpc[version] = "done"
  /\ ~(returned[version] # Valid /\ props.showErrorInline)
  /\ platformOS # "android"
  /\ Returns(FallbackElement(cleanLatex))

\* the native view
ReturnNativeLatexView ==
  /\ cpc = "validate" /\ vpc[version] = "done"
  /\ ~(returned[version] # Valid /\ props.showErrorInline)
  /\ platformOS = "android"
  /\ Returns(NativeLatexViewElement(cleanLatex))

\* the effect: onError is called with the validation error
ErrorEffect ==
  /\ cpc = "effect"
  /\ onErrorCalls' = IF validationError # Valid /\ props.onError
                       THEN Append(onErrorCalls, validationError)
                       ELSE onErrorCalls
  /\ cpc' = "mounted"
  /\ UNCHANGED <<props, platformOS, version, cleanLatex, validationError, element>>
  /\ UNCHANGED <<parseVars, validateVars, callsVars, rendererVars, viewsVars>>

ComponentBodies ==
  ValidateExamples \cup
    {<<>>, <<"a">>, <<"}">>, <<"{">>, FracWord, KnownThenUnknown, Dollar}

Openers == {<<>>, Dollar, Dollar \o Dollar, OpenBracket, <<" ">> \o Dollar}

Closers == {<<>>, Dollar, Dollar \o Dollar, CloseBracket, Dollar \o <<" ">>}

ComponentInputs ==
  {pre \o body \o post : pre \in Openers, body \in ComponentBodies, post \in Closers}

InitComponent ==
  /\ ParseIdle
  /\ ValidateIdle
  /\ NoCalls
  /\ NoViews
  /\ RendererIdle
  /\ props \in [latex : ComponentInputs, showErrorInline : BOOLEAN, onError : BOOLEAN]
  /\ platformOS \in {"android", "ios"}
  /\ version \in Variants
  /\ cpc = "clean"
  /\ cleanLatex = <<>>
  /\ validationError = Valid
  /\ element = NoElement
  /\ onErrorCalls = <<>>

NextComponent ==
  \/ CleanAndValidate
  \/ NextValidate
  \/ ReturnInlineError
  \/ ReturnFallback
  \/ ReturnNativeLatexView
  \/ ErrorEffect

SpecComponent == InitComponent /\ [][NextComponent]_vars

Mounted == cpc = "mounted"

\* validateLatex returned a diagnostic and showErrorInline is true
InlineErrorCase == validationError # Valid /\ props.showErrorInline

\* what the claim says of a mounted component
BannerOrNativeView ==
  /\ element.type # "NativeLatexView" <=> InlineErrorCase
  /\ InlineErrorCase => element = ErrorElement(validationError)
  /\ ~props.showErrorInline =>
       element = NativeLatexViewElement(CleanLatex(props.latex))
  /\ (validationError # Valid /\ props.onError) =>
       onErrorCalls = <<validationError>>

(* C20 as stated: the native view is not instantiated exactly when         *)
(* validateLatex returned a diagnostic and showErrorInline is true, the    *)
(* banner showing the diagnostic; with showErrorInline false the           *)
(* expression goes to the native view; onError, when given, is called      *)
(* with the diagnostic in both cases.                                      *)
C20_NativeViewUnlessInlineError == Mounted => BannerOrNativeView

(* C20, amended: the same on Android; on another platform the native view *)
(* is never instantiated, the banner is shown in the same case and the     *)
(* placeholder otherwise, and onError is called in the same way.           *)
C20_NativeViewUnlessInlineErrorOnAndroid ==
  Mounted =>
    /\ platformOS = "android" => BannerOrNativeView
    /\ platformOS # "android" =>
         /\ element.type # "NativeLatexView"
         /\ InlineErrorCase => element = ErrorElement(validationError)
         /\ ~InlineErrorCase => element = FallbackElement(CleanLatex(props.latex))
         /\ (validationError # Valid /\ props.onError) =>
              onErrorCalls = <<validationError>>

\* on Android, a diagnostic with showErrorInline false and onError given
C20_Witness ==
  /\ Mounted
  /\ platformOS = "android"
  /\ validationError # Valid
  /\ ~props.showErrorInline
  /\ props.onError
  /\ element.type = "NativeLatexView"
  /\ onErrorCalls = <<validationError>>

---------------------------------------------------------------------------
(* ContentRenderer *)

TextElement(s) == [type |-> "Text", content |-> s, error |-> Valid]

\* parts.map, a text part: a Text
MapText ==
  /\ pc = "done" /\ cpc = "idle"
  /\ mapIndex <= Len(parts)
  /\ parts[mapIndex].type = "text"
  /\ children' = Append(children, TextElement(parts[mapIndex].content))
  /\ mapIndex' = mapIndex + 1
  /\ UNCHANGED <<parseVars, validateVars, callsVars, componentVars, viewsVars>>

\* parts.map, a latex part: a LatexRenderer with showErrorInline
MapLatex ==
  /\ pc = "done" /\ cpc = "idle"
  /\ mapIndex <= Len(parts)
  /\ parts[mapIndex].type = "latex"
  /\ props' = [latex |-> parts[mapIndex].content, showErrorInline |-> TRUE,
               onError |-> FALSE]
  /\ cpc' = "clean"
  /\ cleanLatex' = <<>>
  /\ validationError' = Valid
  /\ element' = NoElement
  /\ UNCHANGED <<platformOS, version, onErrorCalls>>
  /\ UNCHANGED <<parseVars, validateVars, callsVars, rendererVars, viewsVars>>

\* a banner ends the rendering of the children
MountChildAbortsOnError ==
  /\ pc = "done" /\ cpc = "mounted"
  /\ children' = Append(children, element)
  /\ mapIndex' = IF element.type = "error" THEN Len(parts) + 1 ELSE mapIndex + 1
  /\ cpc' = "idle"
  /\ UNCHANGED <<props, platformOS, version, cleanLatex, validationError,
                 element, onErrorCalls>>
  /\ UNCHANGED <<parseVars, validateVars, callsVars, viewsVars>>

\* the element of the LatexRenderer is the next child
MountChild ==
  /\ pc = "done" /\ cpc = "mounted"
  /\ children' = Append(children, element)
  /\ mapIndex' = mapIndex + 1
  /\ cpc' = "idle"
  /\ UNCHANGED <<props, platformOS, version, cleanLatex, validationError,
                 element, onErrorCalls>>
  /\ UNCHANGED <<parseVars, validateVars, callsVars, viewsVars>>

TestCase10 ==
  <<"T", "h", "i", "s", " ", "e", "x", "p", "r", "e", "s", "s", "i", "o",
    "n", " ", "i", "s", " ", "w", "r", "o", "n", "g", ":", " ", "$", "\\",
    "f", "r", "a", "c", "{", "a", "+", "b", " ", "}", "{", " ", "c", "$",
    " ", "a", "n", "d", " ", "s", "h", "o", "u", "l", "d", " ", "n", "o",
    "t", " ", "c", "r", "a", "s", "h", ".">>

TestCase11 ==
  <<"T", "r", "y", " ", "r", "e", "n", "d", "e", "r", "i", "n", "g", " ",
    "t", "h", "i", "s", ":", " ", "$", "\\", "s", "q", "r", "t", "{", "2",
    " ", "+", "$", " ", "w", "h", "i", "c", "h", " ", "i", "s", " ", "i",
    "n", "v", "a", "l", "i", "d", ".">>

TestCase12 ==
  <<"H", "e", "r", "e", " ", "i", "s", " ", "s", "o", "m", "e", "t", "h",
    "i", "n", "g", " ", "u", "n", "s", "u", "p", "p", "o", "r", "t", "e",
    "d", ":", " ", "$", "\\", "u", "n", "k", "n", "o", "w", "n", "c", "o",
    "m", "m", "a", "n", "d", "{", "x", "}", "$", ".">>

\* text and math, valid and not, to be put one after the other
Segments ==
  {<<>>, <<"a", " ">>, <<"$", "a", "$">>, <<"$", "}", "$">>, <<"$", "{", "$">>,
   Dollar \o FracWord \o Dollar, Dollar \o KnownThenUnknown \o Dollar,
   <<"$", "1", "$">>, Dollar}

RenderContents ==
  {a \o b \o c : a \in Segments, b \in Segments, c \in Segments}
    \cup {TestCase10, TestCase11, TestCase12, NestedExample}

InitRender ==
  /\ content \in RenderContents
  /\ pc = "display"
  /\ displayLastIndex = 0
  /\ inlineLastIndex = 0
  /\ allMatches = <<>>
  /\ parts = <<>>
  /\ currentIndex = 0
  /\ forEachIndex = 1
  /\ ValidateIdle
  /\ NoCalls
  /\ NoViews
  /\ ComponentIdle
  /\ RendererIdle
  /\ platformOS \in {"android", "ios"}
  /\ version \in Variants

NextRender ==
  \/ Next
  \/ MapText
  \/ MapLatex
  \/ CleanAndValidate
  \/ NextValidate
  \/ ReturnInlineError
  \/ ReturnFallback
  \/ ReturnNativeLatexView
  \/ ErrorEffect
  \/ MountChild

SpecRender == InitRender /\ [][NextRender]_vars

\* ContentRenderer has returned and its children are rendered
Rendered == pc = "done" /\ cpc = "idle" /\ mapIndex > Len(parts)

\* the expression fails validation, in the version of validateLatex in use
Fails(s, v) ==
  \/ ~Balanced(s)
  \/ EndsIn(s, FracWord)
  \/ EndsIn(s, SqrtWord)
  \/ EndsInFracOneGroup(s)
  \/ v = 1 /\ UnknownOffsets(s) # {}

\* the child that stands for a segment
Corresponds(child, part) ==
  IF part.type = "text"
    THEN child = TextElement(part.content)
    ELSE /\ child.type \in {"error", "fallback", "NativeLatexView"}
         /\ Fails(CleanLatex(part.content), version) =>
              child.type = "error" /\ child.error # Valid
         /\ ~Fails(CleanLatex(part.content), version) =>
              child = IF platformOS = "android"
                        THEN NativeLatexViewElement(CleanLatex(part.content))
                        ELSE FallbackElement(CleanLatex(part.content))

\* a step of the rendering, after parseContent has returned
RenderStep ==
  \/ MapText
  \/ MapLatex
  \/ CleanAndValidate
  \/ NextValidate
  \/ ReturnInlineError
  \/ ReturnFallback
  \/ ReturnNativeLatexView
  \/ ErrorEffect
  \/ MountChild

(* C19: the children of ContentRenderer stand one to one, in order, for    *)
(* the segments of parseContent; a math segment that fails validation is   *)
(* an inline error element at its own position, and the rendering goes on  *)
(* to every segment after it.                                              *)
C19_ChildPerSegment ==
  /\ (pc = "done" /\ ~Rendered) => ENABLED RenderStep
  /\ pc = "done" =>
       /\ Len(children) = mapIndex - 1
       /\ Len(children) <= Len(parts)
       /\ \A i \in 1..Len(children) : Corresponds(children[i], parts[i])
  /\ Rendered => Len(children) = Len(parts)

\* a banner, then a text and a math segment that is rendered
C19_Witness ==
  /\ Rendered
  /\ \E i \in 1..Len(children) :
       /\ children[i].type = "error"
       /\ \E j \in (i + 1)..Len(children) : children[j].type = "Text"
       /\ \E j \in (i + 1)..Len(children) : children[j].type = "NativeLatexView"

---------------------------------------------------------------------------
(* NativeLatexView *)

\* the handler holds at most MaxPosted delayed callbacks
MaxPosted == 2

\* an expression on which MTMathView.setLatex throws
RejectedExpression == <<"\\", "x">>

EngineThrows(s) == s = RejectedExpression

NativeExpressions == {<<>>, <<"a">>, <<"b">>, RejectedExpression}

\* e.getMessage() of the exception: null, or a message
ExceptionMessages == {NullString, <<"m">>}

\* the text of the error view (its warning sign left out)
ErrorMsg(message) ==
  IF message # NullString /\ message # <<>> THEN "Error: m" ELSE "LaTeX Error"

\* a catch block that leaves the scroll view as it is
CatchExceptionKeepsMathView(message) ==
  /\ hasError' = TRUE
  /\ errorViewText' = ErrorMsg(message)
  /\ errorViewVisibility' = "VISIBLE"
  /\ UNCHANGED scrollViewVisibility

\* the catch block of renderLatex
CatchException(message) ==
  /\ hasError' = TRUE
  /\ errorViewText' = ErrorMsg(message)
  /\ errorViewVisibility' = "VISIBLE"
  /\ scrollViewVisibility' = "GONE"

\* renderLatex without its check for the same expression
renderLatexNoSkip(s, current, message) ==
  /\ renderLatexCalled' = TRUE
  /\ latexString' = s
  /\ IF s = <<>>
       THEN /\ hasError' = FALSE
            /\ scrollViewVisibility' = "GONE"
            /\ errorViewVisibility' = "GONE"
            /\ engineInvoked' = FALSE
            /\ UNCHANGED errorViewText
       ELSE /\ engineInvoked' = TRUE
            /\ IF EngineThrows(s)
                 THEN CatchException(message)
                 ELSE /\ hasError' = FALSE
                      /\ scrollViewVisibility' = "VISIBLE"
                      /\ errorViewVisibility' = "GONE"
                      /\ UNCHANGED errorViewText

\* renderLatex(s), called when this.latexString is current; message is the
\* message of the exception, if MTMathView throws one
renderLatex(s, current, message) ==
  /\ renderLatexCalled' = TRUE
  /\ IF s = current /\ s # <<>>
       THEN /\ engineInvoked' = FALSE
            /\ latexString' = current
            /\ UNCHANGED <<hasError, scrollViewVisibility, errorViewVisibility,
                           errorViewText>>
       ELSE /\ latexString' = s
            /\ IF s = <<>>
                 THEN /\ hasError' = FALSE
                      /\ scrollViewVisibility' = "GONE"
                      /\ errorViewVisibility' = "GONE"
                      /\ engineInvoked' = FALSE
                      /\ UNCHANGED errorViewText
                 ELSE /\ engineInvoked' = TRUE
                      /\ IF EngineThrows(s)
                           THEN CatchException(message)
                           ELSE /\ hasError' = FALSE
                                /\ scrollViewVisibility' = "VISIBLE"
                                /\ errorViewVisibility' = "GONE"
                                /\ UNCHANGED errorViewText

\* the state that the NativeLatexView does not touch
notNativeVars == <<parseVars, validateVars, callsVars, componentVars,
                   rendererVars, laTeXViewVars>>

\* setLatex that renders whether the view is attached or not
setLatexAlwaysRenders(s) ==
  /\ ~escaped
  /\ lastCall' = "setLatex"
  /\ lastSet' = (IF s = NullString THEN <<>> ELSE s)
  /\ lastSetAttached' = isAttached
  /\ \E message \in ExceptionMessages : renderLatex(lastSet', latexString, message)
  /\ UNCHANGED <<pendingLatex, fontSize, textColor, isAttached, posted, escaped>>
  /\ UNCHANGED notNativeVars

\* setLatex(s)
setLatex(s) ==
  /\ ~escaped
  /\ lastCall' = "setLatex"
  /\ lastSet' = (IF s = NullString THEN <<>> ELSE s)
  /\ lastSetAttached' = isAttached
  /\ IF ~isAttached
       THEN /\ pendingLatex' = lastSet'
            /\ engineInvoked' = FALSE
            /\ UNCHANGED <<latexString, hasError, scrollViewVisibility,
                           errorViewVisibility, errorViewText, renderLatexCalled>>
       ELSE /\ \E message \in ExceptionMessages :
                 renderLatex(lastSet', latexString, message)
            /\ UNCHANGED pendingLatex
  /\ UNCHANGED <<fontSize, textColor, isAttached, posted, escaped>>
  /\ UNCHANGED notNativeVars

\* onAttachedToWindow: the pending expression, or else the rendered one,
\* is posted to the handler
onAttachedToWindow ==
  /\ ~escaped
  /\ ~isAttached
  /\ isAttached' = TRUE
  /\ lastCall' = "onAttachedToWindow"
  /\ engineInvoked' = FALSE
  /\ IF pendingLatex # NullString /\ pendingLatex # <<>>
       THEN /\ Len(posted) < MaxPosted
            /\ posted' = Append(posted, pendingLatex)
            /\ pendingLatex' = NullString
       ELSE IF latexString # <<>>
              THEN /\ Len(posted) < MaxPosted
                   /\ posted' = Append(posted, latexString)
                   /\ UNCHANGED pendingLatex
              ELSE UNCHANGED <<posted, pendingLatex>>
  /\ UNCHANGED <<latexString, fontSize, textColor, hasError,
                 scrollViewVisibility, errorViewVisibility, errorViewText,
                 lastSet, lastSetAttached, renderLatexCalled, escaped>>
  /\ UNCHANGED notNativeVars

onDetachedFromWindow ==
  /\ ~escaped
  /\ isAttached
  /\ isAttached' = FALSE
  /\ lastCall' = "onDetachedFromWindow"
  /\ engineInvoked' = FALSE
  /\ UNCHANGED <<latexString, fontSize, textColor, hasError, pendingLatex,
                 scrollViewVisibility, errorViewVisibility, errorViewText,
                 posted, lastSet, lastSetAttached, renderLatexCalled, escaped>>
  /\ UNCHANGED notNativeVars

\* the handler runs its oldest callback: latexString is cleared, then
\* renderLatex is called with the expression the callback holds
DelayedRender ==
  /\ ~escaped
  /\ posted # <<>>
  /\ posted' = Tail(posted)
  /\ lastCall' = "delayed render"
  /\ \E message \in ExceptionMessages : renderLatex(Head(posted), <<>>, message)
  /\ UNCHANGED <<fontSize, textColor, isAttached, pendingLatex, lastSet,
                 lastSetAttached, escaped>>
  /\ UNCHANGED notNativeVars

\* setFontSize and setTextColor call MTMathView.setLatex outside any try
Rerender ==
  /\ engineInvoked' = (latexString # <<>>)
  /\ escaped' = (latexString # <<>> /\ EngineThrows(latexString))
  /\ UNCHANGED <<latexString, hasError, isAttached, pendingLatex,
                 scrollViewVisibility, errorViewVisibility, errorViewText,
                 posted, lastSet, lastSetAttached, renderLatexCalled>>
  /\ UNCHANGED notNativeVars

setFontSize(size) ==
  /\ ~escaped
  /\ lastCall' = "setFontSize"
  /\ fontSize' = size
  /\ UNCHANGED textColor
  /\ Rerender

setTextColor(color) ==
  /\ ~escaped
  /\ lastCall' = "setTextColor"
  /\ textColor' = color
  /\ UNCHANGED fontSize
  /\ Rerender

InitNativeView ==
  /\ ParseIdle
  /\ ValidateIdle
  /\ NoCalls
  /\ NoComponents
  /\ NativeNew
  /\ LaTeXViewIdle

NextNativeView ==
  \/ \E s \in NativeExpressions \cup {NullString} : setLatex(s)
  \/ onAttachedToWindow
  \/ onDetachedFromWindow
  \/ DelayedRender
  \/ \E size \in {20, 50} : setFontSize(size)
  \/ \E color \in {"BLACK", "WHITE"} : setTextColor(color)

SpecNativeView == InitNativeView /\ [][NextNativeView]_vars

\* the handler runs every callback posted to it
SpecNativeViewFair == SpecNativeView /\ WF_vars(DelayedRender)

---------------------------------------------------------------------------
(* the words of the claims about the NativeLatexView *)

ErrorShown == errorViewVisibility = "VISIBLE"

MathShown == scrollViewVisibility = "VISIBLE"

\* the last operation handed MTMathView an expression it throws on
EngineFailed == engineInvoked /\ latexString = RejectedExpression

\* what the views show, and the fields setLatex may write
Display == <<latexString, hasError, scrollViewVisibility, errorViewVisibility>>

(* C21: a failure thrown by MTMathView.setLatex during any operation       *)
(* (setLatex, the delayed render after attachment, setFontSize,            *)
(* setTextColor) is caught: afterwards the error view is visible with a    *)
(* message, the math view is hidden, and no exception escapes.             *)
C21_EngineFailureCaught ==
  /\ ~escaped
  /\ EngineFailed => (ErrorShown /\ errorViewText # "" /\ ~MathShown)

(* C22: setLatex while the view is not attached only records the string as *)
(* pendingLatex: the engine is not called and latexString, hasError and    *)
(* the visibilities of the two views are unchanged.                        *)
C22_DetachedSetLatexOnlyRecords ==
  [][(lastCall' = "setLatex" /\ ~isAttached) =>
       /\ pendingLatex' = lastSet'
       /\ ~engineInvoked'
       /\ UNCHANGED Display]_vars

C22_Witness ==
  /\ lastCall = "setLatex"
  /\ ~lastSetAttached
  /\ lastSet = <<"b">>
  /\ pendingLatex = <<"b">>
  /\ latexString = <<"a">>
  /\ MathShown

(* C23: every string passed to setLatex while detached, the empty string   *)
(* included, is rendered after the next attach: if the view stays attached *)
(* and setLatex is not called again, eventually latexString equals the     *)
(* string and pendingLatex is cleared.                                     *)
C23_PendingRenderedAfterAttach ==
  \A s \in NativeExpressions :
    (isAttached /\ ~lastSetAttached /\ lastSet = s /\ ~escaped)
      ~> \/ latexString = s /\ pendingLatex = NullString
         \/ ~(isAttached /\ ~lastSetAttached /\ lastSet = s /\ ~escaped)

(* C24: while attached, setLatex with a non-empty string equal to          *)
(* latexString is skipped: the engine is not invoked and no state changes. *)
C24_SameExpressionSkipped ==
  [][(lastCall' = "setLatex" /\ isAttached /\ lastSet' # <<>>
        /\ lastSet' = latexString) =>
       /\ ~engineInvoked'
       /\ UNCHANGED <<Display, errorViewText, pendingLatex, fontSize,
                      textColor, isAttached, posted>>]_vars

C24_Witness ==
  /\ lastCall = "setLatex"
  /\ lastSetAttached
  /\ lastSet = <<"a">>
  /\ latexString = <<"a">>
  /\ ~engineInvoked

(* C26: the last write wins: once the view is attached and no posted       *)
(* callback is outstanding, latexString equals the argument of the most    *)
(* recent setLatex; a delayed callback never overwrites a newer expression *)
(* with an older queued one.                                               *)
C26_LastWriteWins ==
  (isAttached /\ posted = <<>> /\ lastSet # NullString /\ ~escaped) =>
    latexString = lastSet

(* C27: the engine is invoked only while the view is attached: a delayed   *)
(* render that fires after a detach does not render, and its expression    *)
(* stays queued.                                                           *)
C27_EngineOnlyWhileAttached ==
  /\ engineInvoked => isAttached
  /\ (lastCall = "delayed render" /\ ~isAttached) => pendingLatex # NullString

(* C28: after a call to renderLatex the scroll view and the error view are *)
(* never both visible, hasError holds exactly when the error view is       *)
(* visible, and both are hidden exactly when the rendered expression is    *)
(* empty.                                                                  *)
C28_ViewsExclusive ==
  renderLatexCalled =>
    /\ ~(MathShown /\ ErrorShown)
    /\ hasError <=> ErrorShown
    /\ (~MathShown /\ ~ErrorShown) <=> latexString = <<>>

C28_Witness ==
  /\ lastCall = "delayed render"
  /\ latexString = RejectedExpression
  /\ hasError
  /\ ErrorShown
  /\ ~MathShown
  /\ errorViewText = "Error: m"

---------------------------------------------------------------------------
(* cleanLatex of the LatexRenderer component, on wrapped expressions *)

\* the expressions between the delimiters have at most MaxBody characters
MaxBody == 3

CleanAlphabet == {"\\", "[", "]", "$", " ", "a"}

Paddings == {<<>>, <<" ">>}

\* no delimiters, $...$, $$...$$ and \[...\]
Wrappers ==
  {[open |-> <<>>, close |-> <<>>],
   [open |-> Dollar, close |-> Dollar],
   [open |-> Dollar \o Dollar, close |-> Dollar \o Dollar],
   [open |-> OpenBracket, close |-> CloseBracket]}

CleanInputs ==
  {outerLeft \o w.open \o innerLeft \o body \o innerRight \o w.close \o outerRight :
     outerLeft \in Paddings, innerLeft \in Paddings, innerRight \in Paddings,
     outerRight \in Paddings, w \in Wrappers,
     body \in Strings(CleanAlphabet, MaxBody) \cup ComponentBodies}

InitClean ==
  /\ ParseIdle
  /\ ValidateIdle
  /\ NoCalls
  /\ NoViews
  /\ RendererIdle
  /\ props \in [latex : CleanInputs, showErrorInline : BOOLEAN, onError : {TRUE}]
  /\ platformOS \in {"android", "ios"}
  /\ version \in Variants
  /\ cpc = "clean"
  /\ cleanLatex = <<>>
  /\ validationError = Valid
  /\ element = NoElement
  /\ onErrorCalls = <<>>

SpecClean == InitClean /\ [][NextComponent]_vars

\* b may stand between delimiters: not empty, no white space or $ at either
\* end, and not itself of the form \[...\]
IsBody(b) ==
  /\ b # <<>>
  /\ b[1] \notin {" ", "\n", "\t", "$"}
  /\ b[Len(b)] \notin {" ", "\n", "\t", "$"}
  /\ ~(/\ Len(b) >= 2
       /\ <<b[1], b[2]>> = <<"\\", "[">>
       /\ <<b[Len(b) - 1], b[Len(b)]>> = <<"\\", "]">>)

\* s begins with pre
Begins(s, pre) == Len(s) >= Len(pre) /\ SubSeq(s, 1, Len(pre)) = pre

\* s ends with post
Ends(s, post) ==
  Len(s) >= Len(post) /\ SubSeq(s, Len(s) - Len(post) + 1, Len(s)) = post

\* what is left of s without its first m and last n characters
Inner(s, m, n) == SubSeq(s, m + 1, Len(s) - n)

(* C25: cleanLatex removes one wrapping pair of delimiters: for a body b   *)
(* that is not empty, has no white space at either end, neither starts nor *)
(* ends with `$` and is not itself wrapped in `\[`...`\]`, cleaning b,     *)
(* `$`b`$`, `$$`b`$$` or `\[`b`\]`, with or without white space around it  *)
(* and inside the delimiters, gives exactly b.                             *)
C25_CleanLatexRemovesOnePair ==
  cpc # "clean" =>
    \A w \in Wrappers, outerLeft \in Paddings, innerLeft \in Paddings :
      Begins(props.latex, outerLeft \o w.open \o innerLeft) =>
        \A innerRight \in Paddings, outerRight \in Paddings :
          Ends(props.latex, innerRight \o w.close \o outerRight) =>
            \E b \in {Inner(props.latex, Len(outerLeft \o w.open \o innerLeft),
                            Len(innerRight \o w.close \o outerRight))} :
              IsBody(b) => cleanLatex = b

C25_Witness ==
  /\ cpc = "mounted"
  /\ props.latex = <<" ", "$", "$", " ", "a", "$", "a", "$", "$">>
  /\ cleanLatex = <<"a", "$", "a">>

---------------------------------------------------------------------------
(* LaTeXView *)

\* the props change at most MaxChanges times while the component is mounted
MaxChanges == 2

ViewExpressions == {<<>>, <<" ">>, <<"a">>}

ViewProps ==
  [latex : ViewExpressions, fontSize : {20, 30}, textColor : {"#000000", "#333333"},
   maxWidth : {800, 400}, onError : BOOLEAN]

\* the props of the first render: the options have their default values
FirstProps ==
  {p \in ViewProps : p.fontSize = 20 /\ p.textColor = "#000000" /\ p.maxWidth = 800}

\* !latex || latex.trim() === ''
EmptyExpression(s) == s = <<>> \/ Trim(s) = <<>>

EmptyMessage == <<"Empty LaTeX expression">>

NotAvailableMessage == <<"LaTeXRenderer native module not available">>

FailedMessage == <<"Failed to render LaTeX">>

\* what the native module resolves to: the image of the expression with
\* the options of the call
Image(p) == <<"uri", p.latex, p.fontSize, p.textColor, p.maxWidth>>

\* what the native module rejects with: an Error whose message names the
\* expression, or a value that is not an Error
Rejections ==
  {[isError |-> TRUE, message |-> <<"m">> \o s] : s \in ViewExpressions} \cup
    {[isError |-> FALSE, message |-> <<>>]}

\* the Error names the expression of the call
RejectionOf(p, err) == err.isError => err.message = <<"m">> \o p.latex

\* err instanceof Error ? err.message : 'Failed to render LaTeX'
errorMessage(err) == IF err.isError THEN err.message ELSE FailedMessage

\* the state that the LaTeXView does not touch
notLaTeXViewVars == <<parseVars, validateVars, callsVars, componentVars,
                      rendererVars, nativeVars>>

\* the cleanup of the effect: isMounted = false in the closure of the last run
Cleanup(calls) == {[c EXCEPT !.isMounted = FALSE] : c \in calls}

\* renderLaTeX that leaves loading as it is for an empty expression
renderLaTeXKeepsLoading(p, g) ==
  IF EmptyExpression(p.latex)
    THEN /\ error' = EmptyMessage
         /\ inFlight' = Cleanup(inFlight)
         /\ UNCHANGED <<loading, imageUri, nativeCalls, onErrorMessages>>
    ELSE IF ~moduleAvailable
      THEN /\ error' = NotAvailableMessage
           /\ loading' = FALSE
           /\ onErrorMessages' = IF p.onError
                                   THEN Append(onErrorMessages, NotAvailableMessage)
                                   ELSE onErrorMessages
           /\ inFlight' = Cleanup(inFlight)
           /\ UNCHANGED <<imageUri, nativeCalls>>
      ELSE /\ loading' = TRUE
           /\ error' = NullString
           /\ nativeCalls' = nativeCalls \cup {g}
           /\ inFlight' = Cleanup(inFlight) \cup
                            {[generation |-> g, props |-> p, isMounted |-> TRUE]}
           /\ UNCHANGED <<imageUri, onErrorMessages>>

\* the effect with props p, run for the g-th time: the cleanup of the run
\* before, then renderLaTeX() up to its await
renderLaTeX(p, g) ==
  IF EmptyExpression(p.latex)
    THEN /\ error' = EmptyMessage
         /\ loading' = FALSE
         /\ inFlight' = Cleanup(inFlight)
         /\ UNCHANGED <<imageUri, nativeCalls, onErrorMessages>>
    ELSE IF ~moduleAvailable
      THEN /\ error' = NotAvailableMessage
           /\ loading' = FALSE
           /\ onErrorMessages' = IF p.onError
                                   THEN Append(onErrorMessages, NotAvailableMessage)
                                   ELSE onErrorMessages
           /\ inFlight' = Cleanup(inFlight)
           /\ UNCHANGED <<imageUri, nativeCalls>>
      ELSE /\ loading' = TRUE
           /\ error' = NullString
           /\ nativeCalls' = nativeCalls \cup {g}
           /\ inFlight' = Cleanup(inFlight) \cup
                            {[generation |-> g, props |-> p, isMounted |-> TRUE]}
           /\ UNCHANGED <<imageUri, onErrorMessages>>

\* the component is mounted with props p; the effect runs for the first time
Mount(p) ==
  /\ ~isViewMounted
  /\ generation = 0
  /\ isViewMounted' = TRUE
  /\ viewProps' = p
  /\ generation' = 1
  /\ renderLaTeX(p, 1)
  /\ outcome' = [kind |-> "mount", generation |-> 1, message |-> NullString]
  /\ UNCHANGED moduleAvailable
  /\ UNCHANGED notLaTeXViewVars

\* a re-render changes one of latex, fontSize, textColor, maxWidth, onError
OneChanged(p, q) ==
  Cardinality({f \in DOMAIN p : p[f] # q[f]}) = 1

\* one of the props that the effect depends on changes: the effect runs again
ChangeProps(p) ==
  /\ isViewMounted
  /\ generation <= MaxChanges
  /\ OneChanged(p, viewProps)
  /\ viewProps' = p
  /\ generation' = generation + 1
  /\ renderLaTeX(p, generation + 1)
  /\ outcome' = [kind |-> "props", generation |-> generation + 1,
                 message |-> NullString]
  /\ UNCHANGED <<moduleAvailable, isViewMounted>>
  /\ UNCHANGED notLaTeXViewVars

Unmount ==
  /\ isViewMounted
  /\ isViewMounted' = FALSE
  /\ inFlight' = Cleanup(inFlight)
  /\ outcome' = [kind |-> "unmount", generation |-> generation,
                 message |-> NullString]
  /\ UNCHANGED <<viewProps, moduleAvailable, imageUri, error, loading,
                 nativeCalls, generation, onErrorMessages>>
  /\ UNCHANGED notLaTeXViewVars

\* the call resolves, and its result is taken whether isMounted or not
ResolveUnguarded(c) ==
  /\ c \in inFlight
  /\ inFlight' = inFlight \ {c}
  /\ outcome' = [kind |-> "resolved", generation |-> c.generation,
                 message |-> NullString]
  /\ imageUri' = Image(c.props)
  /\ loading' = FALSE
  /\ UNCHANGED <<viewProps, moduleAvailable, isViewMounted, error, nativeCalls,
                 generation, onErrorMessages>>
  /\ UNCHANGED notLaTeXViewVars

\* the call c of the native module resolves
Resolve(c) ==
  /\ c \in inFlight
  /\ inFlight' = inFlight \ {c}
  /\ outcome' = [kind |-> "resolved", generation |-> c.generation,
                 message |-> NullString]
  /\ IF c.isMounted
       THEN /\ imageUri' = Image(c.props)
            /\ loading' = FALSE
       ELSE UNCHANGED <<imageUri, loading>>
  /\ UNCHANGED <<viewProps, moduleAvailable, isViewMounted, error, nativeCalls,
                 generation, onErrorMessages>>
  /\ UNCHANGED notLaTeXViewVars

\* the call c of the native module rejects with err: the catch block
Reject(c, err) ==
  /\ c \in inFlight
  /\ RejectionOf(c.props, err)
  /\ inFlight' = inFlight \ {c}
  /\ outcome' = [kind |-> "rejected", generation |-> c.generation,
                 message |-> errorMessage(err)]
  /\ IF c.isMounted
       THEN /\ error' = errorMessage(err)
            /\ loading' = FALSE
            /\ onErrorMessages' = IF c.props.onError
                                    THEN Append(onErrorMessages, errorMessage(err))
                                    ELSE onErrorMessages
       ELSE UNCHANGED <<error, loading, onErrorMessages>>
  /\ UNCHANGED <<viewProps, moduleAvailable, isViewMounted, imageUri,
                 nativeCalls, generation>>
  /\ UNCHANGED notLaTeXViewVars

\* every call of the native module settles
Settle ==
  \E c \in inFlight :
    \/ Resolve(c)
    \/ \E err \in Rejections : Reject(c, err)

InitLaTeXView ==
  /\ ParseIdle
  /\ ValidateIdle
  /\ NoCalls
  /\ NoComponents
  /\ NativeNew
  /\ viewProps = NoViewProps
  /\ moduleAvailable \in BOOLEAN
  /\ isViewMounted = FALSE
  /\ imageUri = NullString
  /\ error = NullString
  /\ loading = TRUE
  /\ nativeCalls = {}
  /\ inFlight = {}
  /\ generation = 0
  /\ onErrorMessages = <<>>
  /\ outcome = NoOutcome

NextLaTeXView ==
  \/ \E p \in FirstProps : Mount(p)
  \/ \E p \in ViewProps : ChangeProps(p)
  \/ Unmount
  \/ \E c \in inFlight : Resolve(c)
  \/ \E c \in inFlight, err \in Rejections : Reject(c, err)

SpecLaTeXView == InitLaTeXView /\ [][NextLaTeXView]_vars

\* the promise of every call of the native module is settled
SpecLaTeXViewFair == SpecLaTeXView /\ WF_vars(Settle)

---------------------------------------------------------------------------
(* the words of the claims about the LaTeXView *)

\* what the component returns: the states are tested in this order
Displayed ==
  IF loading THEN "loading"
  ELSE IF error # NullString THEN "error"
  ELSE IF imageUri = NullString THEN "no image"
  ELSE "image"

\* the last step settled a call of the native module
Settled == outcome.kind \in {"resolved", "rejected"}

\* the errors that a render with props p can end in
ErrorsFor(p) ==
  IF p.latex = <<>> \/ \A i \in 1..Len(p.latex) : p.latex[i] = " "
    THEN {EmptyMessage}
    ELSE IF ~moduleAvailable
      THEN {NotAvailableMessage}
      ELSE {<<"m">> \o p.latex, FailedMessage}

\* the image or the error on display is the one of props p
ShownFor(p) ==
  \/ /\ Displayed = "image"
     /\ ErrorsFor(p) \cap {EmptyMessage, NotAvailableMessage} = {}
     /\ imageUri = <<"uri", p.latex, p.fontSize, p.textColor, p.maxWidth>>
  \/ /\ Displayed = "error"
     /\ error \in ErrorsFor(p)

\* onError was last called with message m
LastOnError(m) ==
  onErrorMessages # <<>> /\ onErrorMessages[Len(onErrorMessages)] = m

=============================================================================
